---------------------------- MODULE Spec2Model ----------------------------
(***************************************************************************)
(* Model of the invoice extraction pipeline:                               *)
(*   utils/retry.py            the retry controller                        *)
(*   utils/json_repair.py      the repair cascade                          *)
(*   utils/data_validator.py   the semantic validator                      *)
(*   services/llm_wrapper.py   the backend invoker and batch orchestrator  *)
(*   services/invoices_ocr_service.py  the extraction service              *)
(*                                                                         *)
(* Three state machines share the module, each with its own specification: *)
(*   SpecRetry   one run of retry_with_config / exponential_backoff_retry  *)
(*   Spec        one extraction request through LLMWrapper and the service *)
(*   SpecRepair  repair_json and the invoker applied to bounded raw texts  *)
(* A text is a sequence of lexical tokens: every character the code        *)
(* inspects is a token of its own; a run of letters or digits is one token.*)
(* Durations are whole seconds.                                            *)
(***************************************************************************)
EXTENDS Integers, Sequences, FiniteSets, TLC

VARIABLES
    \* ---- utils/retry.py: one call of the retry controller
    variant,         \* "retry_with_config" or "exponential_backoff_retry"
    config,          \* RetryConfig: max_retries, initial_delay, max_delay, exponential_base
    attempt,         \* loop variable of for attempt in range(max_retries + 1)
    delay,           \* local delay
    last_exception,  \* local last_exception ("None" before any failure)
    retry_pc,        \* "loop", "exhausted", "returned", "raised", "idle"
    retry_out,       \* the value returned or the exception raised
    calls,           \* history: outcome of each call of the operation, in order
    sleeps,          \* history: duration of each time.sleep, in order
    \* ---- services/llm_wrapper.py and invoices_ocr_service.py: one request
    provider,             \* settings.llm_provider
    json5_available,      \* whether the json5 package can be imported
    image_paths,          \* the page images of the request, in page order
    pages_per_chunk,      \* settings.pages_per_chunk
    pc,                   \* "process", "chunks", "count", "totals", "done", "raised", "idle"
    loop_i,               \* loop variable i of _process_in_chunks
    all_pagewise_items,   \* local of _process_in_chunks
    total_tokens,         \* local of _process_in_chunks
    total_input_tokens,   \* local of _process_in_chunks
    total_output_tokens,  \* local of _process_in_chunks
    extracted_data,       \* the document process_with_structured_output returned
    token_usage,          \* the token usage it returned
    invoice_data,         \* what _calculate_totals returned
    validated_data,       \* local of _calculate_totals: the pages validation kept
    invocations,          \* history: one entry per call of a _call_<provider> method
    \* ---- utils/json_repair.py: one raw text through repair_json and an invoker
    raw_text,             \* the text the model returned
    repair_pc,            \* "raw", "repaired", "invoked", "extracted", "fixed", "idle"
    repaired,             \* parsed_json, what repair_json returned
    json_object,            \* what extract_json_object returned for the text
    fixed_text,           \* what fix_truncated_json returned for the text
    invoked_provider,     \* the invoker that handled the text
    invoked,              \* what the invoker gave: [raised, result, token_usage]
    \* ---- services/invoices_ocr_service.py and main.py: the requests of one service
    files,                \* the file system: for each path the request whose data it holds
    requests              \* for each request its record: kind, pc, locals

retryVars == <<variant, config, attempt, delay, last_exception, retry_pc,
               retry_out, calls, sleeps>>

orchVars == <<provider, json5_available, image_paths, pages_per_chunk, pc, loop_i,
              all_pagewise_items,
              total_tokens, total_input_tokens, total_output_tokens, extracted_data,
              token_usage, invoice_data, validated_data, invocations>>

repairVars == <<raw_text, repair_pc, repaired, json_object, fixed_text, invoked_provider,
                invoked>>

serviceVars == <<files, requests>>

vars == <<retryVars, orchVars, repairVars, serviceVars>>

\* No request is being handled.
ServiceIdle == files = <<>> /\ requests = <<>>

Min(a, b) == IF a <= b THEN a ELSE b

(***************************************************************************)
(* utils/retry.py                                                          *)
(***************************************************************************)
MaxRetriesBound == 3

InitialDelays == {1, 2, 3}
MaxDelays == {2, 4}
ExponentialBases == {1, 2}
Exceptions == {"E1", "E2"}

RetryConfig(m, i, d, b) ==
    [max_retries |-> m, initial_delay |-> i, max_delay |-> d, exponential_base |-> b]

RetryConfigs ==
    { RetryConfig(m, i, d, b) : m \in 0..MaxRetriesBound, i \in InitialDelays,
                                d \in MaxDelays, b \in ExponentialBases }

RetryIdle ==
    /\ variant = "idle"
    /\ config = RetryConfig(0, 0, 0, 0)
    /\ attempt = 0
    /\ delay = 0
    /\ last_exception = "None"
    /\ retry_pc = "idle"
    /\ retry_out = "None"
    /\ calls = <<>>
    /\ sleeps = <<>>

RetryInit ==
    /\ variant \in {"retry_with_config", "exponential_backoff_retry"}
    /\ config \in RetryConfigs
    /\ attempt = 0
    /\ delay = config.initial_delay
    /\ last_exception = "None"
    /\ retry_pc = "loop"
    /\ retry_out = "None"
    /\ calls = <<>>
    /\ sleeps = <<>>

\* delay = min(delay * exponential_base, max_delay)
NextDelayUncapped(d, cfg) == d * cfg.exponential_base
NextDelay(d, cfg) == Min(d * cfg.exponential_base, cfg.max_delay)

\* if attempt < max_retries : sleep and back off, else give up.
MayRetry(a, cfg) == a < cfg.max_retries

\* The exception surfaced after the last attempt: raise last_exception.
SurfacedFirst(hist, last) == IF hist = <<>> THEN last ELSE hist[1].exc
Surfaced(hist, last) == last

\* One iteration of the loop whose call succeeds: return result.
AttemptSucceeds ==
    /\ retry_pc = "loop"
    /\ attempt <= config.max_retries
    /\ calls' = Append(calls, [ok |-> TRUE, exc |-> "None"])
    /\ retry_pc' = "returned"
    /\ retry_out' = "result"
    /\ UNCHANGED <<variant, config, attempt, delay, last_exception, sleeps>>
    /\ UNCHANGED <<orchVars, repairVars, serviceVars>>

\* One iteration of the loop whose call raises e.
AttemptFails ==
    /\ retry_pc = "loop"
    /\ attempt <= config.max_retries
    /\ \E e \in Exceptions :
        /\ calls' = Append(calls, [ok |-> FALSE, exc |-> e])
        /\ last_exception' = e
        /\ IF MayRetry(attempt, config)
           THEN /\ sleeps' = Append(sleeps, delay)
                /\ delay' = NextDelay(delay, config)
                /\ attempt' = attempt + 1
                /\ retry_pc' = "loop"
                /\ retry_out' = retry_out
           ELSE /\ UNCHANGED <<sleeps, delay, attempt>>
                /\ IF variant = "exponential_backoff_retry"
                   THEN \* retry.py:54 raises inside the loop
                        /\ retry_pc' = "raised"
                        /\ retry_out' = Surfaced(calls', e)
                   ELSE \* retry.py:117 logs, the loop ends
                        /\ retry_pc' = "exhausted"
                        /\ retry_out' = retry_out
    /\ UNCHANGED <<variant, config>>
    /\ UNCHANGED <<orchVars, repairVars, serviceVars>>

\* retry.py:119 raise last_exception after the loop.
RaiseLast ==
    /\ retry_pc = "exhausted"
    /\ retry_pc' = "raised"
    /\ retry_out' = Surfaced(calls, last_exception)
    /\ UNCHANGED <<variant, config, attempt, delay, last_exception, calls, sleeps>>
    /\ UNCHANGED <<orchVars, repairVars, serviceVars>>

RetryNext == AttemptSucceeds \/ AttemptFails \/ RaiseLast


(***************************************************************************)
(* Texts and Python values                                                 *)
(***************************************************************************)
QUOTE == "\""
BS == "\\"
NL == "\n"
TAB == "\t"
CR == "\r"
SP == " "
\* the markdown fence: three backticks, one token
FENCE == "FENCE"
LBRACE == "{"
RBRACE == "}"
LBRACKET == "["
RBRACKET == "]"
COMMA == ","
COLON == ":"

\* str.strip() and the regex class \s
Whitespace == {SP, NL, TAB, CR}
\* characters json.loads rejects inside a string
ControlChars == {NL, TAB, CR}

\* Digits are tokens of their own; numbers are whole (no fraction, no exponent).
Digits == {"0", "1", "2", "3", "4", "5", "6", "7", "8", "9"}
MINUS == "-"
DigitVal(tok) ==
    CASE tok = "0" -> 0 [] tok = "1" -> 1 [] tok = "2" -> 2 [] tok = "3" -> 3
      [] tok = "4" -> 4 [] tok = "5" -> 5 [] tok = "6" -> 6 [] tok = "7" -> 7
      [] tok = "8" -> 8 [] tok = "9" -> 9
DigitTok(d) == CHOOSE tok \in Digits : DigitVal(tok) = d

\* The run of digits that starts at token i: its value and the position after it.
RECURSIVE ScanDigits(_, _, _)
ScanDigits(txt, i, acc) ==
    IF i <= Len(txt) /\ txt[i] \in Digits
    THEN ScanDigits(txt, i + 1, 10 * acc + DigitVal(txt[i]))
    ELSE [n |-> acc, pos |-> i]

\* str(n) for n >= 0
RECURSIVE DigitsOf(_)
DigitsOf(n) == IF n < 10 THEN <<DigitTok(n)>> ELSE Append(DigitsOf(n \div 10), DigitTok(n % 10))

\* Python values. None is also what json.loads gives for the text null.
PyNone == [t |-> "None"]
PyNum(n) == [t |-> "num", n |-> n]
PyStr(s) == [t |-> "str", s |-> s]
PyBool(b) == [t |-> "bool", b |-> b]
PyList(items) == [t |-> "list", items |-> items]
PyDict(kv) == [t |-> "dict", kv |-> kv]
\* float('nan'): what float("nan") and the JSON literal NaN give
PyNaN == [t |-> "nan"]
\* an int too large for a float (float(10 ** 400) raises OverflowError)
PyBigInt == [t |-> "bigint"]
\* a float that is not a whole number, in thousandths: PyMilli(5) is 0.005
PyMilli(m) == [t |-> "milli", m |-> m]

IsDict(v) == v.t = "dict"
IsList(v) == v.t = "list"
IsStr(v) == v.t = "str"

\* key in d
HasKey(d, key) == \E i \in 1..Len(d.kv) : d.kv[i].k = key
\* d[key] for a key that is present
Lookup(d, key) == d.kv[CHOOSE i \in 1..Len(d.kv) : d.kv[i].k = key].v
\* d.get(key, default)
Get(d, key, default) == IF HasKey(d, key) THEN Lookup(d, key) ELSE default
\* d[key] = v : a present key keeps its place, a new one goes last
SetKey(kv, key, v) ==
    IF \E i \in 1..Len(kv) : kv[i].k = key
    THEN [i \in 1..Len(kv) |-> IF kv[i].k = key THEN [k |-> key, v |-> v] ELSE kv[i]]
    ELSE Append(kv, [k |-> key, v |-> v])

\* Python truthiness: if x, not x
Truthy(v) ==
    CASE v.t = "None" -> FALSE
      [] v.t = "bool" -> v.b
      [] v.t = "num" -> v.n # 0
      [] v.t \in {"nan", "bigint", "milli"} -> TRUE
      [] v.t = "str" -> v.s # <<>>
      [] v.t = "list" -> v.items # <<>>
      [] v.t = "dict" -> v.kv # <<>>

(***************************************************************************)
(* json.loads (and json5.loads when lenient)                               *)
(***************************************************************************)
ParseErr == [ok |-> FALSE, val |-> PyNone, pos |-> 0]
ParseOk(v, p) == [ok |-> TRUE, val |-> v, pos |-> p]

RECURSIVE SkipWs(_, _)
SkipWs(txt, i) ==
    IF i <= Len(txt) /\ txt[i] \in Whitespace THEN SkipWs(txt, i + 1) ELSE i

\* The escapes of a JSON string: a backslash and the character after it. The
\* character is the first one of the next token; the rest of a word token
\* stays in the string.
FF == "\f"
Unescape(tok) ==
    CASE tok = "n" -> <<NL>> [] tok = "t" -> <<TAB>> [] tok = "r" -> <<CR>>
      [] tok = QUOTE -> <<QUOTE>> [] tok = BS -> <<BS>>
      [] tok = "null" -> <<NL, "ull">> [] tok = "true" -> <<TAB, "rue">>
      [] tok = "false" -> <<FF, "alse">>
Escapable == {"n", "t", "r", QUOTE, BS, "null", "true", "false"}

\* The body of a string, from the token after its opening quote.
RECURSIVE ParseString(_, _, _)
ParseString(txt, i, acc) ==
    IF i > Len(txt) THEN ParseErr
    ELSE IF txt[i] = QUOTE THEN ParseOk(PyStr(acc), i + 1)
    ELSE IF txt[i] = BS
         THEN IF i + 1 <= Len(txt) /\ txt[i + 1] \in Escapable
              THEN ParseString(txt, i + 2, acc \o Unescape(txt[i + 1]))
              ELSE ParseErr
    ELSE IF txt[i] \in ControlChars THEN ParseErr
    ELSE ParseString(txt, i + 1, Append(acc, txt[i]))

IsWord(tok) ==
    tok \notin {QUOTE, BS, FENCE, LBRACE, RBRACE, LBRACKET, RBRACKET, COMMA, COLON, MINUS}
              \cup Whitespace \cup Digits \cup {"true", "false", "null", "NaN"}

\* A JSON number at token i: -?(0|[1-9][0-9]*)
ParseNumber(txt, i) ==
    LET j == IF txt[i] = MINUS THEN i + 1 ELSE i
        sign == IF txt[i] = MINUS THEN 0 - 1 ELSE 1
    IN
    IF j > Len(txt) \/ txt[j] \notin Digits THEN [ok |-> FALSE, val |-> PyNone, pos |-> 0]
    ELSE IF txt[j] = "0" THEN [ok |-> TRUE, val |-> PyNum(0), pos |-> j + 1]
    ELSE [ok |-> TRUE, val |-> PyNum(sign * ScanDigits(txt, j, 0).n),
          pos |-> ScanDigits(txt, j, 0).pos]

RECURSIVE ParseValue(_, _, _)
RECURSIVE ParseElements(_, _, _, _)
RECURSIVE ParseMembers(_, _, _, _)

\* A value starting at token i (leading whitespace skipped).
ParseValue(txt, i0, lenient) ==
    LET i == SkipWs(txt, i0) IN
    IF i > Len(txt) THEN ParseErr
    ELSE IF txt[i] = QUOTE THEN ParseString(txt, i + 1, <<>>)
    ELSE IF txt[i] \in Digits \cup {MINUS} THEN ParseNumber(txt, i)
    ELSE IF txt[i] = "true" THEN ParseOk(PyBool(TRUE), i + 1)
    ELSE IF txt[i] = "false" THEN ParseOk(PyBool(FALSE), i + 1)
    ELSE IF txt[i] = "null" THEN ParseOk(PyNone, i + 1)
    ELSE IF txt[i] = "NaN" THEN ParseOk(PyNaN, i + 1)
    ELSE IF txt[i] = LBRACKET
         THEN LET j == SkipWs(txt, i + 1) IN
              IF j <= Len(txt) /\ txt[j] = RBRACKET THEN ParseOk(PyList(<<>>), j + 1)
              ELSE ParseElements(txt, j, <<>>, lenient)
    ELSE IF txt[i] = LBRACE
         THEN LET j == SkipWs(txt, i + 1) IN
              IF j <= Len(txt) /\ txt[j] = RBRACE THEN ParseOk(PyDict(<<>>), j + 1)
              ELSE ParseMembers(txt, j, <<>>, lenient)
    ELSE ParseErr

\* The elements of an array, from the first token of an element.
ParseElements(txt, i, acc, lenient) ==
    LET e == ParseValue(txt, i, lenient) IN
    IF ~e.ok THEN ParseErr
    ELSE LET j == SkipWs(txt, e.pos) IN
         IF j > Len(txt) THEN ParseErr
         ELSE IF txt[j] = RBRACKET THEN ParseOk(PyList(Append(acc, e.val)), j + 1)
         ELSE IF txt[j] = COMMA
              THEN LET k == SkipWs(txt, j + 1) IN
                   IF lenient /\ k <= Len(txt) /\ txt[k] = RBRACKET
                   THEN ParseOk(PyList(Append(acc, e.val)), k + 1)
                   ELSE ParseElements(txt, k, Append(acc, e.val), lenient)
         ELSE ParseErr

\* The members of an object, from the first token of a key.
ParseMembers(txt, i, acc, lenient) ==
    LET key == IF i > Len(txt) THEN ParseErr
               ELSE IF txt[i] = QUOTE THEN ParseString(txt, i + 1, <<>>)
               ELSE IF lenient /\ IsWord(txt[i]) THEN ParseOk(PyStr(<<txt[i]>>), i + 1)
               ELSE ParseErr
    IN
    IF ~key.ok THEN ParseErr
    ELSE LET c == SkipWs(txt, key.pos) IN
         IF c > Len(txt) \/ txt[c] # COLON THEN ParseErr
         ELSE LET e == ParseValue(txt, c + 1, lenient) IN
              IF ~e.ok THEN ParseErr
              ELSE LET j == SkipWs(txt, e.pos)
                       kv == SetKey(acc, key.val.s, e.val)
                   IN
                   IF j > Len(txt) THEN ParseErr
                   ELSE IF txt[j] = RBRACE THEN ParseOk(PyDict(kv), j + 1)
                   ELSE IF txt[j] = COMMA
                        THEN LET k == SkipWs(txt, j + 1) IN
                             IF lenient /\ k <= Len(txt) /\ txt[k] = RBRACE
                             THEN ParseOk(PyDict(kv), k + 1)
                             ELSE ParseMembers(txt, k, kv, lenient)
                   ELSE ParseErr

\* json.loads(text): one value, whitespace around it, nothing else.
\* ok = FALSE stands for json.JSONDecodeError.
Loads(txt, lenient) ==
    LET r == ParseValue(txt, 1, lenient) IN
    IF r.ok /\ SkipWs(txt, r.pos) > Len(txt) THEN r ELSE ParseErr

json_loads(txt) == Loads(txt, FALSE)
json5_loads(txt) == Loads(txt, TRUE)

(***************************************************************************)
(* utils/json_repair.py                                                    *)
(***************************************************************************)
Lstrip(txt) ==
    LET kept == {k \in 1..Len(txt) : txt[k] \notin Whitespace} IN
    IF kept = {} THEN <<>>
    ELSE SubSeq(txt, CHOOSE k \in kept : \A j \in kept : k <= j, Len(txt))
Rstrip(txt) ==
    LET kept == {k \in 1..Len(txt) : txt[k] \notin Whitespace} IN
    IF kept = {} THEN <<>>
    ELSE SubSeq(txt, 1, CHOOSE k \in kept : \A j \in kept : j <= k)
\* str.strip()
Strip(txt) == Lstrip(Rstrip(txt))

\* str.endswith(c) for a single character c
EndsWith(txt, c) == txt # <<>> /\ txt[Len(txt)] = c
\* str.count(c) for a single character c
Count(txt, c) == Cardinality({k \in 1..Len(txt) : txt[k] = c})
\* str.count of the two different characters a b (occurrences cannot overlap)
CountPair(txt, a, b) == Cardinality({k \in 1..Len(txt) - 1 : txt[k] = a /\ txt[k + 1] = b})

\* The concatenation of parts[lo], ..., parts[hi].
RECURSIVE Flatten(_, _, _)
Flatten(parts, lo, hi) ==
    IF lo > hi THEN <<>>
    ELSE IF lo = hi THEN parts[lo]
    ELSE Flatten(parts, lo, (lo + hi) \div 2) \o Flatten(parts, (lo + hi) \div 2 + 1, hi)

\* text.split('\n'): the lines, one more than there are newlines
Split(txt) ==
    LET newlines == {k \in 1..Len(txt) : txt[k] = NL}
        \* position of the j-th newline; 0 before the first, Len + 1 after the last
        Bound(j) == IF j = 0 THEN 0
                    ELSE IF j > Cardinality(newlines) THEN Len(txt) + 1
                    ELSE CHOOSE p \in newlines : Cardinality({q \in newlines : q <= p}) = j
    IN [j \in 1..Cardinality(newlines) + 1 |-> SubSeq(txt, Bound(j - 1) + 1, Bound(j) - 1)]
\* '\n'.join(lines)
Join(lines) ==
    Flatten([k \in 1..Len(lines) |-> IF k = 1 THEN lines[k] ELSE <<NL>> \o lines[k]],
            1, Len(lines))

\* Whether token k of txt lies in the run of whitespace that follows token j.
InWhitespaceRunAfter(txt, j, k) == j < k /\ \A m \in j + 1..k : txt[m] \in Whitespace

\* re.sub(r'<fence>json\s*', '', text)
FenceJsonAt(txt, k) == k >= 1 /\ k + 1 <= Len(txt) /\ txt[k] = FENCE /\ txt[k + 1] = "json"
SubFenceJson(txt) ==
    LET Matched(k) == \/ FenceJsonAt(txt, k)
                      \/ FenceJsonAt(txt, k - 1)
                      \/ \E j \in 2..k - 1 : FenceJsonAt(txt, j - 1)
                                            /\ InWhitespaceRunAfter(txt, j, k)
    IN Flatten([k \in 1..Len(txt) |-> IF Matched(k) THEN <<>> ELSE <<txt[k]>>], 1, Len(txt))
\* re.sub(r'<fence>\s*', '', text)
SubFence(txt) ==
    LET Matched(k) == \/ txt[k] = FENCE
                      \/ \E j \in 1..k - 1 : txt[j] = FENCE /\ InWhitespaceRunAfter(txt, j, k)
    IN Flatten([k \in 1..Len(txt) |-> IF Matched(k) THEN <<>> ELSE <<txt[k]>>], 1, Len(txt))

clean_json_string(text) == Strip(SubFence(SubFenceJson(text)))

\* Optional[str]
NoText == [found |-> FALSE, text |-> <<>>]
SomeText(txt) == [found |-> TRUE, text |-> txt]

\* brace_count after the loop of extract_json_object has handled character k
BraceCount(text, k) ==
    Cardinality({j \in 1..k : text[j] = LBRACE}) - Cardinality({j \in 1..k : text[j] = RBRACE})

\* start_idx is the first '{'; the loop returns at the first '}' after it that
\* brings brace_count to 0.
extract_json_object(text) ==
    LET opens == {k \in 1..Len(text) : text[k] = LBRACE}
        ends == {k \in 1..Len(text) : /\ text[k] = RBRACE
                                      /\ BraceCount(text, k) = 0
                                      /\ \E j \in opens : j < k}
    IN IF ends = {} THEN NoText
       ELSE SomeText(SubSeq(text, CHOOSE k \in opens : \A j \in opens : k <= j,
                                  CHOOSE k \in ends : \A j \in ends : k <= j))

\* line.endswith(',') or line.endswith('}') or line.endswith(']') ...
LooksComplete(line) ==
    EndsWith(line, COMMA) \/ EndsWith(line, RBRACE) \/ EndsWith(line, RBRACKET)

\* text followed by n copies of '\n' + closer
RECURSIVE AppendClosers(_, _, _)
AppendClosers(text, closer, n) ==
    IF n <= 0 THEN text ELSE AppendClosers(text \o <<NL, closer>>, closer, n - 1)

\* Close brackets first, then braces.
CloseOpen(text) ==
    LET a == AppendClosers(text, RBRACKET, Count(text, LBRACKET) - Count(text, RBRACKET))
    IN AppendClosers(a, RBRACE, Count(text, LBRACE) - Count(text, RBRACE))

\* text.rstrip()[:-1] when the text ends with a comma after rstrip
DropTrailingComma(text, stripped) ==
    IF EndsWith(stripped, COMMA) THEN SubSeq(stripped, 1, Len(stripped) - 1) ELSE text

\* 1-based index of the last line that looks complete, 0 if none
LastValidLine(lines) ==
    LET valid == {k \in 1..Len(lines) : LooksComplete(Strip(lines[k]))} IN
    IF valid = {} THEN 0 ELSE CHOOSE k \in valid : \A j \in valid : j <= k

\* The truncation at the last complete line (json_repair.py:79-95).
TruncateAt(text, lines, last_valid_line) ==
    IF last_valid_line > 1
    THEN DropTrailingComma(Join(SubSeq(lines, 1, last_valid_line)),
                           Rstrip(Join(SubSeq(lines, 1, last_valid_line))))
    ELSE text
Truncate(text, lines) == TruncateAt(text, lines, LastValidLine(lines))
TruncateCleaned(text) == Truncate(text, Split(text))

fix_truncated_json(text) == CloseOpen(TruncateCleaned(clean_json_string(text)))

\* One line of fix_unterminated_strings.
FixLine(line) ==
    IF Strip(line) \in {<<LBRACE>>, <<RBRACE>>, <<LBRACKET>>, <<RBRACKET>>, <<COMMA>>}
    THEN line
    ELSE LET quote_count == Count(line, QUOTE) - CountPair(line, BS, QUOTE) IN
         IF quote_count % 2 # 0
         THEN IF EndsWith(Rstrip(line), COMMA)
              THEN SubSeq(Rstrip(line), 1, Len(Rstrip(line)) - 1) \o <<QUOTE, COMMA>>
              ELSE IF EndsWith(Rstrip(line), RBRACE) \/ EndsWith(Rstrip(line), RBRACKET)
                   THEN line   \* the last quote is replaced by a quote
                   ELSE Rstrip(line) \o <<QUOTE>>
         ELSE line

FixLines(lines) == Join([k \in 1..Len(lines) |-> FixLine(lines[k])])
fix_unterminated_strings(text) == FixLines(Split(fix_truncated_json(text)))

\* re.sub(r'(?<!\\)\n(?![}\]])', '\\\\n', text)
EscapeNewlines(text) ==
    Flatten([k \in 1..Len(text) |->
                IF /\ text[k] = NL
                   /\ ~(k > 1 /\ text[k - 1] = BS)
                   /\ ~(k < Len(text) /\ text[k + 1] \in {RBRACE, RBRACKET})
                THEN <<BS, "n">> ELSE <<text[k]>>],
            1, Len(text))
\* re.sub(r'(?<!\\)\r', '\\\\r', text) and the same for \t
EscapeChar(text, c, letter) ==
    Flatten([k \in 1..Len(text) |->
                IF text[k] = c /\ ~(k > 1 /\ text[k - 1] = BS)
                THEN <<BS, letter>> ELSE <<text[k]>>],
            1, Len(text))

escape_control_characters(text) ==
    EscapeChar(EscapeChar(EscapeNewlines(text), CR, "r"), TAB, "t")

\* Strategy 6 of repair_json.
RepairExtracted(text_extracted) ==
    IF text_extracted.found
    THEN json_loads(escape_control_characters(fix_unterminated_strings(text_extracted.text)))
    ELSE ParseErr
CombinedRepair(text) == RepairExtracted(extract_json_object(clean_json_string(text)))

\* Strategy 3 of repair_json.
LoadExtracted(extracted) == IF extracted.found THEN json_loads(extracted.text) ELSE ParseErr

\* The value of the first strategy that parsed, PyNone when none did.
FirstParsed(attempts) ==
    LET parsed == {k \in 1..Len(attempts) : attempts[k].ok} IN
    IF parsed = {} THEN PyNone
    ELSE attempts[CHOOSE k \in parsed : \A j \in parsed : k <= j].val

\* repair_json(text); j5 tells whether the json5 package can be imported.
\* The result is the parsed value, PyNone when every strategy fails.
repair_json(text, j5) ==
    IF text = <<>> \/ Strip(text) = <<>> THEN PyNone
    ELSE FirstParsed(<<json_loads(text),
                       json_loads(clean_json_string(text)),
                       LoadExtracted(extract_json_object(text)),
                       json_loads(fix_unterminated_strings(text)),
                       json_loads(escape_control_characters(text)),
                       CombinedRepair(text),
                       IF j5 THEN json5_loads(text) ELSE ParseErr>>)

PAGEWISE == <<"pagewise_line_items">>
PAGE_NO == <<"page_no">>
PAGE_TYPE == <<"page_type">>
BILL_ITEMS == <<"bill_items">>
ITEM_NAME == <<"item_name">>
ITEM_QUANTITY == <<"item_quantity">>
ITEM_RATE == <<"item_rate">>
ITEM_AMOUNT == <<"item_amount">>

validate_invoice_structure(data) ==
    /\ IsDict(data)
    /\ HasKey(data, PAGEWISE)
    /\ IsList(Lookup(data, PAGEWISE))
    /\ \A p \in 1..Len(Lookup(data, PAGEWISE).items) :
         LET page_item == Lookup(data, PAGEWISE).items[p] IN
         /\ IsDict(page_item)
         /\ \A field \in {PAGE_NO, PAGE_TYPE, BILL_ITEMS} : HasKey(page_item, field)
         /\ IsList(Lookup(page_item, BILL_ITEMS))
         /\ \A b \in 1..Len(Lookup(page_item, BILL_ITEMS).items) :
              LET bill_item == Lookup(page_item, BILL_ITEMS).items[b] IN
              /\ IsDict(bill_item)
              /\ \A field \in {ITEM_NAME, ITEM_QUANTITY, ITEM_RATE, ITEM_AMOUNT} :
                    HasKey(bill_item, field)

get_empty_invoice_structure == PyDict(<<[k |-> PAGEWISE, v |-> PyList(<<>>)]>>)

(***************************************************************************)
(* utils/data_validator.py                                                 *)
(* An item name is spelled character by character where the code looks at  *)
(* its characters; a word the code never matches may be one opaque token.  *)
(* Amounts, rates and quantities are whole numbers.                        *)
(***************************************************************************)
\* str.upper(), character by character; an opaque word holds no keyword and
\* is left as it is.
UpperChar(tok) ==
    CASE tok = "a" -> "A" [] tok = "b" -> "B" [] tok = "c" -> "C" [] tok = "d" -> "D" [] tok = "e" -> "E" [] tok = "f" -> "F" [] tok = "g" -> "G" [] tok = "h" -> "H" [] tok = "i" -> "I" [] tok = "j" -> "J" [] tok = "k" -> "K" [] tok = "l" -> "L" [] tok = "m" -> "M" [] tok = "n" -> "N" [] tok = "o" -> "O" [] tok = "p" -> "P" [] tok = "q" -> "Q" [] tok = "r" -> "R" [] tok = "s" -> "S" [] tok = "t" -> "T" [] tok = "u" -> "U" [] tok = "v" -> "V" [] tok = "w" -> "W" [] tok = "x" -> "X" [] tok = "y" -> "Y" [] tok = "z" -> "Z"
      [] OTHER -> tok
Upper(name) == [i \in 1..Len(name) |-> UpperChar(name[i])]

\* str.lower() of the words a page type is made of
LowerWord(tok) ==
    CASE tok \in {"Bill", "BILL", "bill"} -> "bill"
      [] tok \in {"Detail", "DETAIL", "detail"} -> "detail"
      [] tok \in {"Final", "FINAL", "final"} -> "final"
      [] tok \in {"Pharmacy", "PHARMACY", "pharmacy"} -> "pharmacy"
      [] OTHER -> tok
Lower(name) == [i \in 1..Len(name) |-> LowerWord(name[i])]

\* A str whose repr is the text between apostrophes: no quote, backslash or
\* control character in it.
APOS == "'"
PlainStr(v) ==
    v.t = "str" /\ \A k \in 1..Len(v.s) : v.s[k] \notin {QUOTE, APOS, BS, NL, TAB, CR, FF}
\* repr of a list of such strings: ['a', 'b']
ReprOfStrs(items) ==
    <<LBRACKET>>
    \o Flatten([k \in 1..Len(items) |->
                   (IF k > 1 THEN <<COMMA, SP>> ELSE <<>>) \o <<APOS>> \o items[k].s \o <<APOS>>],
               1, Len(items))
    \o <<RBRACKET>>

\* str(value)
StrOf(v) ==
    CASE v.t = "str" -> v.s
      [] v.t = "None" -> <<"None">>
      [] v.t = "bool" -> IF v.b THEN <<"True">> ELSE <<"False">>
      [] v.t = "num" -> IF v.n < 0 THEN <<MINUS>> \o DigitsOf(0 - v.n) ELSE DigitsOf(v.n)
      [] v.t = "nan" -> <<"nan">>
      [] v.t = "milli" -> <<"<float>">>
      [] v.t = "bigint" -> <<"<digits>">>
      [] v.t = "list" -> IF v.items = <<>> THEN <<LBRACKET, RBRACKET>>
                         ELSE IF \A k \in 1..Len(v.items) : PlainStr(v.items[k])
                         THEN ReprOfStrs(v.items)
                         ELSE <<"<repr>">>
      [] v.t = "dict" -> IF v.kv = <<>> THEN <<LBRACE, RBRACE>> ELSE <<"<repr>">>

\* ' '.join(cleaned.split()) : runs of whitespace become one space, none at the ends
RECURSIVE CollapseSpaces(_)
CollapseSpaces(txt) ==
    LET t == Lstrip(txt) IN
    IF t = <<>> THEN <<>>
    ELSE IF Lstrip(Tail(t)) = <<>> THEN <<Head(t)>>
    ELSE IF Tail(t)[1] \in Whitespace THEN <<Head(t), SP>> \o CollapseSpaces(Tail(t))
    ELSE <<Head(t)>> \o CollapseSpaces(Tail(t))

\* char.isprintable() is false for the control characters
Unprintable == {NL, TAB, CR, FF}

clean_item_name(name) ==
    IF ~IsStr(name) THEN StrOf(name)
    ELSE LET spaced == [i \in 1..Len(name.s) |->
                          IF name.s[i] \in Unprintable THEN SP ELSE name.s[i]]
         IN Strip(CollapseSpaces(spaced))

\* A float is PyNum(n) or PyNaN. The outcome of float(value): the float, or
\* ValueError / TypeError (ok = FALSE), or OverflowError (ok = FALSE, overflow).
Converted(f) == [ok |-> TRUE, overflow |-> FALSE, f |-> f]
NotConverted == [ok |-> FALSE, overflow |-> FALSE, f |-> PyNum(0)]
Overflowed == [ok |-> FALSE, overflow |-> TRUE, f |-> PyNum(0)]

\* float(text) of a string
FloatOfStr(txt) ==
    LET t == Strip(txt)
        signed == t # <<>> /\ t[1] = MINUS
        j == IF signed THEN 2 ELSE 1
    IN
    IF j = Len(t) /\ t[j] \in {"nan", "NaN"} THEN Converted(PyNaN)
    ELSE IF j <= Len(t) /\ t[j] \in Digits /\ ScanDigits(t, j, 0).pos > Len(t)
    THEN Converted(PyNum(IF signed THEN 0 - ScanDigits(t, j, 0).n ELSE ScanDigits(t, j, 0).n))
    ELSE NotConverted

\* value.replace(',', '')
RECURSIVE RemoveCommas(_)
RemoveCommas(txt) ==
    IF txt = <<>> THEN <<>>
    ELSE (IF Head(txt) = COMMA THEN <<>> ELSE <<Head(txt)>>) \o RemoveCommas(Tail(txt))

\* float(value) after the comma removal
ToFloat(value) ==
    CASE value.t = "str" -> FloatOfStr(RemoveCommas(value.s))
      [] value.t = "num" -> Converted(value)
      [] value.t = "nan" -> Converted(value)
      [] value.t = "milli" -> Converted(value)
      [] value.t = "bigint" -> Overflowed
      [] value.t = "bool" -> Converted(PyNum(IF value.b THEN 1 ELSE 0))
      [] OTHER -> NotConverted

Abs(n) == IF n < 0 THEN 0 - n ELSE n

\* Comparisons and arithmetic of floats: every comparison with nan is false.
\* A float other than nan is held in thousandths: a whole number as PyNum(n),
\* any other as PyMilli(m). A product is kept to the thousandth.
IsNaN(f) == f.t = "nan"
MilliOf(f) == IF f.t = "milli" THEN f.m ELSE 1000 * f.n
Milli(m) == IF m % 1000 = 0 THEN PyNum(m \div 1000) ELSE PyMilli(m)
Below(f, n) == ~IsNaN(f) /\ MilliOf(f) < 1000 * n
Above(f, n) == ~IsNaN(f) /\ MilliOf(f) > 1000 * n
Equals(f, n) == ~IsNaN(f) /\ MilliOf(f) = 1000 * n
\* f > 0.01
AboveTolerance(f) == ~IsNaN(f) /\ MilliOf(f) > 10
MilliTimes(a, b) ==
    IF a % 1000 = 0 THEN (a \div 1000) * b
    ELSE IF b % 1000 = 0 THEN a * (b \div 1000)
    ELSE (a * b) \div 1000
Times(f, g) == IF IsNaN(f) \/ IsNaN(g) THEN PyNaN ELSE Milli(MilliTimes(MilliOf(f), MilliOf(g)))
Difference(f, g) == IF IsNaN(f) \/ IsNaN(g) THEN PyNaN ELSE Milli(MilliOf(f) - MilliOf(g))
\* abs(f)
AbsOf(f) == IF IsNaN(f) THEN f ELSE Milli(Abs(MilliOf(f)))

\* if float_value < 0: float_value = abs(float_value)
NonNegative(f) == IF Below(f, 0) THEN AbsOf(f) ELSE f

\* The float when the conversion worked, the default when ValueError or
\* TypeError was raised.
AbsFloatOr(converted, default) == IF converted.ok THEN NonNegative(converted.f) ELSE PyNum(default)

validate_numeric_field(value, default) == AbsFloatOr(ToFloat(value), default)

\* keyword in name : the keyword occurs as a contiguous part of the name
Contains(name, kw) ==
    \E i \in 1..(Len(name) - Len(kw) + 1) : SubSeq(name, i, i + Len(kw) - 1) = kw
StartsWith(name, prefix) ==
    Len(name) >= Len(prefix) /\ SubSeq(name, 1, Len(prefix)) = prefix
EndsWithSeq(name, suffix) ==
    Len(name) >= Len(suffix) /\ SubSeq(name, Len(name) - Len(suffix) + 1, Len(name)) = suffix

KwTOTAL == <<"T", "O", "T", "A", "L">>
KwSUB == <<"S", "U", "B">>
strong_keywords ==
    { <<"D", "I", "S", "C", "O", "U", "N", "T">>,
      KwSUB \o KwTOTAL, KwSUB \o <<SP>> \o KwTOTAL, KwSUB \o <<MINUS>> \o KwTOTAL,
      <<"G", "R", "A", "N", "D", SP>> \o KwTOTAL,
      <<"N", "E", "T", SP>> \o KwTOTAL,
      <<"A", "M", "O", "U", "N", "T", SP>> \o KwTOTAL,
      <<"R", "O", "U", "N", "D", SP, "O", "F", "F">>,
      <<"R", "O", "U", "N", "D", "I", "N", "G">> }
exact_keywords ==
    { <<"G", "S", "T">>, <<"C", "G", "S", "T">>, <<"S", "G", "S", "T">>,
      <<"I", "G", "S", "T">>, <<"T", "A", "X">>, KwTOTAL }

is_discount_or_total_row(item_name) ==
    IF item_name = <<>> THEN FALSE
    ELSE LET name_upper == Strip(Upper(item_name)) IN
         \/ \E keyword \in strong_keywords : Contains(name_upper, keyword)
         \/ \E keyword \in exact_keywords :
               \/ name_upper = keyword
               \/ StartsWith(name_upper, keyword \o <<SP>>)
               \/ StartsWith(name_upper, keyword \o <<COLON>>)
               \/ EndsWithSeq(name_upper, <<SP>> \o keyword)
               \/ EndsWithSeq(name_upper, <<COLON>> \o keyword)

UNKNOWN_ITEM == <<"Unknown", SP, "Item">>

\* The product whenever it is positive and differs from the amount.
ReconcileAlways(quantity, rate, amount) ==
    IF /\ AboveTolerance(AbsOf(Difference(Times(quantity, rate), amount)))
       /\ Above(Times(quantity, rate), 0)
    THEN Times(quantity, rate) ELSE amount

\* The amount after the reconciliation of validate_bill_item.
Reconcile(quantity, rate, amount) ==
    IF /\ AboveTolerance(AbsOf(Difference(Times(quantity, rate), amount)))
       /\ Above(Times(quantity, rate), 0)
       /\ Equals(amount, 0)
       /\ Above(Times(quantity, rate), 0)
    THEN Times(quantity, rate) ELSE amount

\* The validated dict, as a record, from its cleaned fields.
Validated(name, quantity, rate, amount) ==
    [item_name |-> name, item_quantity |-> quantity, item_rate |-> rate,
     item_amount |-> Reconcile(quantity, rate, amount)]

validate_bill_item(item) ==
    Validated(clean_item_name(Get(item, ITEM_NAME, PyStr(UNKNOWN_ITEM))),
              validate_numeric_field(Get(item, ITEM_QUANTITY, PyNum(1)), 1),
              validate_numeric_field(Get(item, ITEM_RATE, PyNum(0)), 0),
              validate_numeric_field(Get(item, ITEM_AMOUNT, PyNum(0)), 0))

BILL_DETAIL == <<"Bill", SP, "Detail">>
FINAL_BILL == <<"Final", SP, "Bill">>
PHARMACY == <<"Pharmacy">>
valid_types == <<BILL_DETAIL, FINAL_BILL, PHARMACY>>

\* The lower-cased text itself, whatever it is.
MatchTypeUnmapped(page_type_str) == page_type_str

\* The first valid type equal to the text when both are lower-cased.
MatchType(page_type_str) ==
    LET matches == {k \in 1..3 : page_type_str = Lower(valid_types[k])} IN
    IF matches = {} THEN BILL_DETAIL
    ELSE valid_types[CHOOSE k \in matches : \A j \in matches : k <= j]

validate_page_type(page_type) ==
    IF ~Truthy(page_type) THEN BILL_DETAIL
    ELSE IF IsStr(page_type) /\ \E k \in 1..3 : page_type.s = valid_types[k]
         THEN page_type.s
    ELSE MatchType(Lower(Strip(StrOf(page_type))))

\* The raw amount of an item is negative (data_validator.py:248-259).
IsNegative(converted) == converted.ok /\ Below(converted.f, 0)
\* The validated amount of the item, which abs() has made positive, is negative.
ValidatedAmountNegative(item) ==
    IsNegative(Converted(validate_numeric_field(Get(item, ITEM_AMOUNT, PyNum(0)), 0)))
RawAmountNegative(item) == IsNegative(ToFloat(Get(item, ITEM_AMOUNT, PyNum(0))))

\* What the loop over bill_items appends for one dict item.
KeptValidated(item, validated_item) ==
    IF /\ ~is_discount_or_total_row(validated_item.item_name)
       /\ ~RawAmountNegative(item)
       /\ validated_item.item_name # <<>>
       /\ validated_item.item_name # UNKNOWN_ITEM
    THEN <<validated_item>> ELSE <<>>
KeptItem(item) == IF ~IsDict(item) THEN <<>> ELSE KeptValidated(item, validate_bill_item(item))

SelectItems(items) == Flatten([k \in 1..Len(items) |-> KeptItem(items[k])], 1, Len(items))

\* bill_items of a page, an empty list when it is not a list
ItemsOf(bill_items) == IF IsList(bill_items) THEN bill_items.items ELSE <<>>

\* One page of validate_and_clean_invoice_data, as a record.
ValidatedPage(page_data) ==
    [page_no |-> StrOf(Get(page_data, PAGE_NO, PyStr(<<"1">>))),
     page_type |-> validate_page_type(Get(page_data, PAGE_TYPE, PyStr(BILL_DETAIL))),
     bill_items |-> SelectItems(ItemsOf(Get(page_data, BILL_ITEMS, PyList(<<>>))))]

\* The page, with or without items.
PageAlways(validated_page) == <<validated_page>>

\* What the loop over the pages appends for one page.
PageIfItems(validated_page) ==
    IF validated_page.bill_items # <<>> THEN <<validated_page>> ELSE <<>>
KeptPage(page_data) ==
    IF ~IsDict(page_data) THEN <<>> ELSE PageIfItems(ValidatedPage(page_data))

ValidatedPages(pages) == Flatten([k \in 1..Len(pages) |-> KeptPage(pages[k])], 1, Len(pages))

\* The pages of a pagewise_line_items value, none when it is not a list
PagesOf(pagewise_items) ==
    IF ~IsList(pagewise_items) THEN <<>> ELSE ValidatedPages(pagewise_items.items)

\* validate_and_clean_invoice_data(data): the sequence under
\* "pagewise_line_items" of the dict it returns.
validate_and_clean_invoice_data(data) ==
    IF ~IsDict(data) THEN <<>> ELSE PagesOf(Get(data, PAGEWISE, PyList(<<>>)))

\* float(value) raises OverflowError, which validate_numeric_field does not
\* catch: the value of a numeric field of a dict item is an int beyond the floats.
ItemRaises(item) ==
    IsDict(item) /\ \E field \in {ITEM_QUANTITY, ITEM_RATE, ITEM_AMOUNT} :
                        ToFloat(Get(item, field, PyNum(0))).overflow
PageRaises(page_data) ==
    /\ IsDict(page_data)
    /\ \E k \in 1..Len(ItemsOf(Get(page_data, BILL_ITEMS, PyList(<<>>)))) :
          ItemRaises(ItemsOf(Get(page_data, BILL_ITEMS, PyList(<<>>)))[k])
\* validate_and_clean_invoice_data(data) raises
ValidateRaises(data) ==
    /\ IsDict(data)
    /\ IsList(Get(data, PAGEWISE, PyList(<<>>)))
    /\ \E k \in 1..Len(Get(data, PAGEWISE, PyList(<<>>)).items) :
          PageRaises(Get(data, PAGEWISE, PyList(<<>>)).items[k])

(***************************************************************************)
(* Backend responses                                                       *)
(* A response is a transport failure (ok = FALSE: the HTTP call or         *)
(* raise_for_status raises) or a nominally successful one with its text    *)
(* and the token counts the provider reports.                              *)
(***************************************************************************)
Str(s) == <<QUOTE>> \o s \o <<QUOTE>>
Member(key, valueText) == Str(key) \o <<COLON, SP>> \o valueText
ItemText(name, quantity, rate, amount) ==
    <<LBRACE>> \o Member(ITEM_NAME, Str(name)) \o <<COMMA, SP>>
               \o Member(ITEM_QUANTITY, quantity) \o <<COMMA, SP>>
               \o Member(ITEM_RATE, rate) \o <<COMMA, SP>>
               \o Member(ITEM_AMOUNT, amount) \o <<RBRACE>>
PageText(page_no, page_type, itemsText) ==
    <<LBRACE>> \o Member(PAGE_NO, Str(page_no)) \o <<COMMA, SP>>
               \o Member(PAGE_TYPE, Str(page_type)) \o <<COMMA, SP>>
               \o Member(BILL_ITEMS, itemsText) \o <<RBRACE>>
DocText(pagesText) == <<LBRACE>> \o Member(PAGEWISE, pagesText) \o <<RBRACE>>
ListText(elementText) == <<LBRACKET>> \o elementText \o <<RBRACKET>>

ParacetamolItem == ItemText(<<"Paracetamol">>, <<"2">>, <<"1", "0">>, <<"2", "0">>)
ConsultationItem == ItemText(<<"Consultation">>, <<"1">>, <<"3", "5", "0">>, <<"0">>)
GoodDoc1 == DocText(ListText(PageText(<<"1">>, PHARMACY, ListText(ParacetamolItem))))
GoodDoc2 == DocText(ListText(PageText(<<"2">>, BILL_DETAIL, ListText(ConsultationItem))))

Usage(total, input, output) ==
    [total_tokens |-> total, input_tokens |-> input, output_tokens |-> output]
ZeroUsage == Usage(0, 0, 0)

ResponseIds == {"transport_error", "good1", "good2", "fenced", "garbage", "fenced_list",
                "list", "bad_page", "null_items", "null_pages"}

Response(id) ==
    CASE id = "transport_error" -> [ok |-> FALSE, text |-> <<>>, usage |-> ZeroUsage]
      [] id = "good1" -> [ok |-> TRUE, text |-> GoodDoc1, usage |-> Usage(5, 3, 1)]
      [] id = "good2" -> [ok |-> TRUE, text |-> GoodDoc2, usage |-> Usage(9, 4, 5)]
      [] id = "fenced" ->
           [ok |-> TRUE,
            text |-> <<"Here", SP, "is", SP, "the", SP, "data", COLON, NL, FENCE, "json", NL>>
                     \o GoodDoc1 \o <<NL, FENCE>>,
            usage |-> Usage(6, 3, 3)]
      [] id = "garbage" -> [ok |-> TRUE, text |-> <<"no", SP, "data">>, usage |-> Usage(3, 2, 1)]
      [] id = "fenced_list" ->
           [ok |-> TRUE, text |-> <<FENCE, "json", NL, LBRACKET, "1", RBRACKET, NL, FENCE>>,
            usage |-> Usage(4, 3, 1)]
      [] id = "bad_page" ->
           [ok |-> TRUE, text |-> DocText(ListText(<<"1">>)), usage |-> Usage(4, 2, 2)]
      [] id = "null_items" ->
           [ok |-> TRUE,
            text |-> DocText(ListText(PageText(<<"3">>, PHARMACY, <<"null">>))),
            usage |-> Usage(7, 3, 4)]
      [] id = "null_pages" -> [ok |-> TRUE, text |-> DocText(<<"null">>), usage |-> Usage(2, 1, 1)]
      [] id = "list" ->
           [ok |-> TRUE, text |-> <<LBRACKET, "1", RBRACKET>>, usage |-> Usage(3, 1, 2)]

(***************************************************************************)
(* services/llm_wrapper.py: the backend invokers                           *)
(* An invoker gives [raised, result, token_usage]; raised = TRUE stands    *)
(* for any exception leaving the method.                                   *)
(***************************************************************************)
Raised == [raised |-> TRUE, result |-> PyNone, token_usage |-> ZeroUsage]
Returned(result, usage) == [raised |-> FALSE, result |-> result, token_usage |-> usage]

\* len(x) is defined
HasLen(v) == v.t \in {"list", "str", "dict"}

\* _call_gemini after repair_json (llm_wrapper.py:246-262)
GeminiResult(parsed_json, usage) ==
    IF parsed_json = PyNone THEN Returned(get_empty_invoice_structure, usage)
    ELSE IF validate_invoice_structure(parsed_json) THEN Returned(parsed_json, usage)
    ELSE IF ~IsDict(parsed_json) THEN Raised            \* .get on a list, str, number
    ELSE IF Truthy(Get(parsed_json, PAGEWISE, PyNone))
         THEN IF HasLen(Lookup(parsed_json, PAGEWISE))  \* len() in the log line
              THEN Returned(parsed_json, usage)
              ELSE Raised
    ELSE Returned(get_empty_invoice_structure, usage)

call_gemini(response, j5) ==
    IF ~response.ok THEN Raised
    ELSE GeminiResult(repair_json(Strip(response.text), j5), response.usage)

\* _call_openai after the API call (llm_wrapper.py:303-313)
OpenAIResult(loaded, usage) == IF ~loaded.ok THEN Raised ELSE Returned(loaded.val, usage)

call_openai(response, j5) ==
    IF ~response.ok THEN Raised ELSE OpenAIResult(json_loads(response.text), response.usage)

\* _call_ollama after repair_json (llm_wrapper.py:397-409)
OllamaResultEmpty(parsed_json) == Returned(get_empty_invoice_structure, ZeroUsage)
OllamaResult(parsed_json) ==
    IF parsed_json = PyNone THEN Returned(get_empty_invoice_structure, ZeroUsage)
    ELSE IF ~validate_invoice_structure(parsed_json)
         THEN Returned(get_empty_invoice_structure, ZeroUsage)
    ELSE Returned(parsed_json, ZeroUsage)

call_ollama(response, j5) ==
    IF ~response.ok THEN Raised ELSE OllamaResult(repair_json(response.text, j5))

Providers == {"gemini", "openai", "ollama"}

\* The dispatch on self.provider (llm_wrapper.py:76-81 and 116-121).
CallProvider(p, response, j5) ==
    CASE p = "gemini" -> call_gemini(response, j5)
      [] p = "openai" -> call_openai(response, j5)
      [] p = "ollama" -> call_ollama(response, j5)

\* What each provider's invoker does with each response of the model.
InvokerTable ==
    [p \in Providers, id \in ResponseIds, j5 \in BOOLEAN |-> CallProvider(p, Response(id), j5)]

(***************************************************************************)
(* services/llm_wrapper.py: the batch orchestrator                         *)
(***************************************************************************)
\* Iterating a value, as list.extend and a for loop do.
Iterate(v) ==
    CASE v.t = "list" -> [ok |-> TRUE, items |-> v.items]
      [] v.t = "str" -> [ok |-> TRUE, items |-> [k \in 1..Len(v.s) |-> PyStr(<<v.s[k]>>)]]
      [] v.t = "dict" -> [ok |-> TRUE, items |-> [k \in 1..Len(v.kv) |-> PyStr(v.kv[k].k)]]
      [] OTHER -> [ok |-> FALSE, items |-> <<>>]

\* image_paths[i:i + chunk_size], the offset counted from 0
ChunkOverlapping(paths, from, chunk_size) ==
    SubSeq(paths, from + 1, Min(from + chunk_size + 1, Len(paths)))
Chunk(paths, from, chunk_size) ==
    SubSeq(paths, from + 1, Min(from + chunk_size, Len(paths)))

\* The body of the try block after the invoker returned (llm_wrapper.py:123-130):
\* the accumulators after it, and whether it raised.
Acc(pages, total, input, output, raised) ==
    [pages |-> pages, total |-> total, input |-> input, output |-> output, raised |-> raised]
\* result.get("pagewise_line_items", []), iterated
PagewiseItems(result) ==
    IF ~IsDict(result) THEN [ok |-> FALSE, items |-> <<>>]
    ELSE Iterate(Get(result, PAGEWISE, PyList(<<>>)))
ExtendTokensFirst(acc, pagewise_items, usage) ==
    Acc(IF pagewise_items.ok THEN acc.pages \o pagewise_items.items ELSE acc.pages,
        acc.total + usage.total_tokens,
        acc.input + usage.input_tokens,
        acc.output + usage.output_tokens,
        ~pagewise_items.ok)
Extend(acc, pagewise_items, usage) ==
    IF ~pagewise_items.ok THEN [acc EXCEPT !.raised = TRUE]   \* result.get or extend raised
    ELSE Acc(acc.pages \o pagewise_items.items,
             acc.total + usage.total_tokens,
             acc.input + usage.input_tokens,
             acc.output + usage.output_tokens,
             FALSE)
Accumulate(acc, inv) ==
    IF inv.raised THEN [acc EXCEPT !.raised = TRUE]
    ELSE Extend(acc, PagewiseItems(inv.result), inv.token_usage)

\* The offset of the next chunk after one whose try block raised: continue.
AfterFailedChunkBreak(from, chunk_size, n) == n
AfterFailedChunk(from, chunk_size, n) == from + chunk_size

\* The responses one invocation got from the backend, one per attempt: the
\* invoker is called directly and once, self.retry_config is never used.
Attempts(id) == <<id>>

\* RetryConfig(max_retries=3, ...) of LLMWrapper.__init__
ConfiguredMaxRetries == 3

\* The entry the history keeps of one invocation.
Invocation(chunk, id, inv, failed) ==
    [chunk |-> chunk, response |-> id, attempts |-> Attempts(id),
     transport_ok |-> Response(id).ok, invoker_raised |-> inv.raised,
     failed |-> failed,
     pages |-> IF ~inv.raised /\ PagewiseItems(inv.result).ok
               THEN PagewiseItems(inv.result).items ELSE <<>>,
     usage |-> inv.token_usage]

\* invoices_ocr_service.py:226-228: whether the count of the extracted items raises
PageCountRaises(page) == ~IsDict(page) \/ ~HasLen(Get(page, BILL_ITEMS, PyList(<<>>)))
PagesCountRaise(pages) ==
    ~pages.ok \/ \E k \in 1..Len(pages.items) : PageCountRaises(pages.items[k])
CountItemsRaises(data) == PagesCountRaise(PagewiseItems(data))

\* invoices_ocr_service.py:271-277
FinalPageType(page_type) ==
    IF page_type = <<>> \/ page_type \notin {BILL_DETAIL, FINAL_BILL, PHARMACY}
    THEN BILL_DETAIL ELSE page_type

\* The number of different items of each page, identical rows counted once.
RECURSIVE CountDistinct(_)
CountDistinct(pages) ==
    IF pages = <<>> THEN 0
    ELSE Cardinality({Head(pages).bill_items[k] : k \in 1..Len(Head(pages).bill_items)})
         + CountDistinct(Tail(pages))

RECURSIVE SumLen(_)
SumLen(pages) ==
    IF pages = <<>> THEN 0 ELSE Len(Head(pages).bill_items) + SumLen(Tail(pages))

RECURSIVE PagesWithItems(_)
PagesWithItems(pages) ==
    IF pages = <<>> THEN <<>>
    ELSE (IF Head(pages).bill_items # <<>>
          THEN <<[Head(pages) EXCEPT !.page_type = FinalPageType(@)]>> ELSE <<>>)
         \o PagesWithItems(Tail(pages))

\* _calculate_totals(extracted_data): the InvoiceData
Totals(cleaned_data) ==
    [pagewise_line_items |-> PagesWithItems(cleaned_data),
     total_item_count |-> SumLen(cleaned_data)]
calculate_totals(data) == Totals(validate_and_clean_invoice_data(data))

NoInvoice == [pagewise_line_items |-> <<>>, total_item_count |-> 0]

MaxImages == 7
MaxPagesPerChunk == 3
MaxBatches == 3

\* ceil(n / s)
Ceil(n, s) == (n + s - 1) \div s

OrchIdle ==
    /\ provider = "idle"
    /\ image_paths = <<>>
    /\ pages_per_chunk = 0
    /\ pc = "idle"
    /\ loop_i = 0
    /\ all_pagewise_items = <<>>
    /\ total_tokens = 0
    /\ total_input_tokens = 0
    /\ total_output_tokens = 0
    /\ extracted_data = PyNone
    /\ token_usage = ZeroUsage
    /\ invoice_data = NoInvoice
    /\ validated_data = <<>>
    /\ invocations = <<>>

OrchInit ==
    /\ provider \in Providers
    /\ json5_available \in BOOLEAN
    /\ pages_per_chunk \in 1..MaxPagesPerChunk
    /\ \E n \in 0..MaxImages : /\ Ceil(n, pages_per_chunk) <= MaxBatches
                                /\ image_paths = [k \in 1..n |-> k]
    /\ pc = "process"
    /\ loop_i = 0
    /\ all_pagewise_items = <<>>
    /\ total_tokens = 0
    /\ total_input_tokens = 0
    /\ total_output_tokens = 0
    /\ extracted_data = PyNone
    /\ token_usage = ZeroUsage
    /\ invoice_data = NoInvoice
    /\ validated_data = <<>>
    /\ invocations = <<>>

\* process_with_structured_output, small document: one direct call.
ProcessDirect ==
    /\ pc = "process"
    /\ ~(Len(image_paths) > pages_per_chunk)
    /\ \E id \in ResponseIds : \E inv \in {InvokerTable[provider, id, json5_available]} :
         /\ invocations' = Append(invocations, Invocation(image_paths, id, inv, inv.raised))
         /\ IF inv.raised
            THEN /\ pc' = "raised"
                 /\ UNCHANGED <<extracted_data, token_usage>>
            ELSE /\ pc' = "count"
                 /\ extracted_data' = inv.result
                 /\ token_usage' = inv.token_usage
    /\ UNCHANGED <<provider, json5_available, image_paths, pages_per_chunk, loop_i, all_pagewise_items,
                   total_tokens, total_input_tokens, total_output_tokens, invoice_data, validated_data>>
    /\ UNCHANGED <<retryVars, repairVars, serviceVars>>

\* process_with_structured_output, large document: enter _process_in_chunks.
EnterChunks ==
    /\ pc = "process"
    /\ Len(image_paths) > pages_per_chunk
    /\ pc' = "chunks"
    /\ loop_i' = 0
    /\ all_pagewise_items' = <<>>
    /\ total_tokens' = 0
    /\ total_input_tokens' = 0
    /\ total_output_tokens' = 0
    /\ UNCHANGED <<provider, json5_available, image_paths, pages_per_chunk, extracted_data,
                   token_usage, invoice_data, validated_data, invocations>>
    /\ UNCHANGED <<retryVars, repairVars, serviceVars>>

\* One iteration of the loop of _process_in_chunks.
ProcessChunk ==
    /\ pc = "chunks"
    /\ loop_i < Len(image_paths)
    /\ \E id \in ResponseIds : \E inv \in {InvokerTable[provider, id, json5_available]} :
       \E after \in {Accumulate(Acc(all_pagewise_items, total_tokens, total_input_tokens,
                                    total_output_tokens, FALSE), inv)} :
         /\ invocations' = Append(invocations,
                                  Invocation(Chunk(image_paths, loop_i, pages_per_chunk),
                                             id, inv, after.raised))
         /\ all_pagewise_items' = after.pages
         /\ total_tokens' = after.total
         /\ total_input_tokens' = after.input
         /\ total_output_tokens' = after.output
         /\ loop_i' = IF after.raised
                      THEN AfterFailedChunk(loop_i, pages_per_chunk, Len(image_paths))
                      ELSE loop_i + pages_per_chunk
    /\ UNCHANGED <<provider, json5_available, image_paths, pages_per_chunk, pc, extracted_data,
                   token_usage, invoice_data, validated_data>>
    /\ UNCHANGED <<retryVars, repairVars, serviceVars>>

\* The end of _process_in_chunks: combine and return.
CombineChunks ==
    /\ pc = "chunks"
    /\ ~(loop_i < Len(image_paths))
    /\ extracted_data' = PyDict(<<[k |-> PAGEWISE, v |-> PyList(all_pagewise_items)]>>)
    /\ token_usage' = Usage(total_tokens, total_input_tokens, total_output_tokens)
    /\ pc' = "count"
    /\ UNCHANGED <<provider, json5_available, image_paths, pages_per_chunk, loop_i, all_pagewise_items,
                   total_tokens, total_input_tokens, total_output_tokens, invoice_data, validated_data,
                   invocations>>
    /\ UNCHANGED <<retryVars, repairVars, serviceVars>>

\* _extract_data_with_llm after the wrapper returned: count and log the items.
CountItems ==
    /\ pc = "count"
    /\ pc' = IF CountItemsRaises(extracted_data) THEN "raised" ELSE "totals"
    /\ UNCHANGED <<provider, json5_available, image_paths, pages_per_chunk, loop_i, all_pagewise_items,
                   total_tokens, total_input_tokens, total_output_tokens, extracted_data,
                   token_usage, invoice_data, validated_data, invocations>>
    /\ UNCHANGED <<retryVars, repairVars, serviceVars>>

\* _calculate_totals and the return of process_document.
CalculateTotals ==
    /\ pc = "totals"
    /\ IF ValidateRaises(extracted_data)
       THEN /\ pc' = "raised"
            /\ UNCHANGED <<validated_data, invoice_data>>
       ELSE \E validated \in {validate_and_clean_invoice_data(extracted_data)} :
               /\ validated_data' = validated
               /\ invoice_data' = Totals(validated)
               /\ pc' = "done"
    /\ UNCHANGED <<provider, json5_available, image_paths, pages_per_chunk, loop_i, all_pagewise_items,
                   total_tokens, total_input_tokens, total_output_tokens, extracted_data,
                   token_usage, invocations>>
    /\ UNCHANGED <<retryVars, repairVars, serviceVars>>

(***************************************************************************)
(* repair_json and the invokers on every short text                        *)
(***************************************************************************)
MaxTextLen == 3
TextAlphabet == {QUOTE, LBRACE, RBRACE, LBRACKET, RBRACKET, COMMA, NL, "1", FENCE}
Texts == UNION {[1..n -> TextAlphabet] : n \in 0..MaxTextLen}

RepairIdle ==
    /\ raw_text = <<>>
    /\ repair_pc = "idle"
    /\ repaired = PyNone
    /\ json_object = NoText
    /\ fixed_text = <<>>
    /\ invoked_provider = "idle"
    /\ invoked = Raised

RepairInit ==
    /\ raw_text \in Texts
    /\ repair_pc = "raw"
    /\ repaired = PyNone
    /\ json_object = NoText
    /\ fixed_text = <<>>
    /\ invoked_provider = "idle"
    /\ invoked = Raised

\* parsed_json = repair_json(response_text)
Repair ==
    /\ repair_pc = "raw"
    /\ repaired' = repair_json(raw_text, json5_available)
    /\ repair_pc' = "repaired"
    /\ UNCHANGED <<raw_text, json_object, fixed_text, invoked_provider, invoked>>
    /\ UNCHANGED <<retryVars, orchVars, serviceVars>>

\* The same text as the content of a nominally successful response of a backend.
InvokeOnText ==
    /\ repair_pc = "repaired"
    /\ \E p \in Providers :
         /\ invoked_provider' = p
         /\ invoked' = CallProvider(p, [ok |-> TRUE, text |-> raw_text, usage |-> ZeroUsage],
                                    json5_available)
    /\ repair_pc' = "invoked"
    /\ UNCHANGED <<raw_text, repaired, json_object, fixed_text>>
    /\ UNCHANGED <<retryVars, orchVars, serviceVars>>

RepairNext == Repair \/ InvokeOnText

Next ==
    \/ ProcessDirect
    \/ EnterChunks
    \/ ProcessChunk
    \/ CombineChunks
    \/ CountItems
    \/ CalculateTotals

\* One request through the extraction pipeline; the retry controller is not part of it.
Init == OrchInit /\ RetryIdle /\ RepairIdle /\ ServiceIdle

Spec == Init /\ [][Next]_vars

\* The retry controller on its own.
InitRetry ==
    RetryInit /\ OrchIdle /\ RepairIdle /\ ServiceIdle /\ json5_available = FALSE

SpecRetry == InitRetry /\ [][RetryNext]_vars

\* repair_json and the invokers on one raw text.
InitRepair ==
    RepairInit /\ RetryIdle /\ OrchIdle /\ ServiceIdle /\ json5_available \in BOOLEAN

SpecRepair == InitRepair /\ [][RepairNext]_vars

(***************************************************************************)
(* repair_json and the invokers on invoice documents: schema-conformant    *)
(* texts, the same wrapped in prose and a markdown fence, and the same cut *)
(* off inside a bill_items array.                                          *)
(***************************************************************************)
MaxDocPages == 2
MaxDocItems == 2

\* A bill item as json.loads gives it.
Item(name, quantity, rate, amount) ==
    PyDict(<<[k |-> ITEM_NAME, v |-> PyStr(name)],
             [k |-> ITEM_QUANTITY, v |-> PyNum(quantity)],
             [k |-> ITEM_RATE, v |-> PyNum(rate)],
             [k |-> ITEM_AMOUNT, v |-> PyNum(amount)]>>)

\* The items the documents are made of; two names hold a brace.
DocItemKinds ==
    << Item(<<"Paracetamol">>, 2, 10, 20),
       Item(<<"Consultation">>, 1, 350, 0),
       Item(<<"Tab", SP, RBRACE>>, 1, 5, 5),
       Item(<<"Kit", SP, LBRACE, "x">>, 3, 2, 6) >>

DocItem(j, i, o) == DocItemKinds[((o + j + i) % Len(DocItemKinds)) + 1]

\* Page j of a document whose pages have m items each.
DocPage(j, m, o) ==
    PyDict(<<[k |-> PAGE_NO, v |-> PyStr(DigitsOf(j))],
             [k |-> PAGE_TYPE, v |-> PyStr(valid_types[(j % 3) + 1])],
             [k |-> BILL_ITEMS, v |-> PyList([i \in 1..m |-> DocItem(j, i, o)])]>>)

\* A schema-conformant document of p pages.
SchemaDoc(p, m, o) ==
    PyDict(<<[k |-> PAGEWISE, v |-> PyList([j \in 1..p |-> DocPage(j, m, o)])]>>)

\* The text of a value: json.dumps(v) when ~nl, json.dumps(v, indent=0) when nl.
Brk(nl) == IF nl THEN <<NL>> ELSE <<>>
Sep(nl) == IF nl THEN <<COMMA, NL>> ELSE <<COMMA, SP>>
RECURSIVE Render(_, _)
Render(v, nl) ==
    CASE v.t = "num" -> IF v.n < 0 THEN <<MINUS>> \o DigitsOf(0 - v.n) ELSE DigitsOf(v.n)
      [] v.t = "str" -> Str(v.s)
      [] v.t = "None" -> <<"null">>
      [] v.t = "nan" -> <<"NaN">>
      [] v.t = "bool" -> IF v.b THEN <<"true">> ELSE <<"false">>
      [] v.t = "list" ->
           IF v.items = <<>> THEN <<LBRACKET, RBRACKET>>
           ELSE <<LBRACKET>> \o Brk(nl)
                \o Flatten([k \in 1..Len(v.items) |->
                               (IF k > 1 THEN Sep(nl) ELSE <<>>) \o Render(v.items[k], nl)],
                           1, Len(v.items))
                \o Brk(nl) \o <<RBRACKET>>
      [] v.t = "dict" ->
           IF v.kv = <<>> THEN <<LBRACE, RBRACE>>
           ELSE <<LBRACE>> \o Brk(nl)
                \o Flatten([k \in 1..Len(v.kv) |->
                               (IF k > 1 THEN Sep(nl) ELSE <<>>)
                               \o Str(v.kv[k].k) \o <<COLON, SP>> \o Render(v.kv[k].v, nl)],
                           1, Len(v.kv))
                \o Brk(nl) \o <<RBRACE>>

\* Brace-free prose, then the text inside a json code fence.
Prose == <<"Here", SP, "is", SP, "the", SP, "data", COLON, NL>>
Fenced(text) == Prose \o <<FENCE, "json", NL>> \o text \o <<NL, FENCE>>

\* The text of a document without the closers of its last bill_items array,
\* its last page, the page array and the root.
OpenText(text, nl) == SubSeq(text, 1, Len(text) - 4 * (1 + Len(Brk(nl))))

\* The cases: the text the backend returned and the document it stands for.
DocCase(kind, text, doc) == [kind |-> kind, text |-> text, doc |-> doc]

ValidCases ==
    { DocCase("valid", Render(SchemaDoc(p, m, o), nl), SchemaDoc(p, m, o)) :
        p \in 0..MaxDocPages, m \in 0..MaxDocItems, o \in 0..3, nl \in BOOLEAN }

FencedCases ==
    { DocCase("fenced", Fenced(Render(SchemaDoc(p, m, o), nl)), SchemaDoc(p, m, o)) :
        p \in 1..MaxDocPages, m \in 1..MaxDocItems, o \in 0..3, nl \in BOOLEAN }

\* d without the key
DropKey(d, key) == PyDict(SelectSeq(d.kv, LAMBDA e : e.k # key))
\* A document with the one page
OnePage(page) == PyDict(<<[k |-> PAGEWISE, v |-> PyList(<<page>>)]>>)
\* page with the bill_items value
WithItems(page, bill_items) == PyDict(SetKey(page.kv, BILL_ITEMS, bill_items))

\* Documents that parse and fail validate_invoice_structure: the first ones
\* hold a non-empty page sequence, the last ones none.
InvalidDocs ==
    { OnePage(DropKey(DocPage(1, 1, 2), PAGE_TYPE)),
      OnePage(DropKey(DocPage(1, 2, 2), PAGE_NO)),
      OnePage(WithItems(DocPage(1, 0, 2), PyList(<<DropKey(DocItem(1, 1, 2), ITEM_RATE)>>))),
      OnePage(WithItems(DocPage(1, 0, 2), PyList(<<DocItem(1, 1, 2), PyNum(1)>>))),
      OnePage(WithItems(DocPage(1, 0, 2), PyNone)),
      OnePage(PyNum(1)),
      PyDict(<<[k |-> PAGEWISE, v |-> PyList(<<DocPage(1, 1, 2), PyNone>>)]>>),
      PyDict(<<[k |-> PAGEWISE, v |-> PyNone]>>),
      PyDict(<<[k |-> PAGEWISE, v |-> PyDict(<<>>)]>>),
      PyDict(<<[k |-> <<"pages">>, v |-> PyList(<<DocPage(1, 1, 2)>>)]>>),
      PyDict(<<>>) }

InvalidCases == { DocCase("invalid", Render(d, nl), d) : d \in InvalidDocs, nl \in BOOLEAN }

\* The text of the item that follows the m complete items of the last page,
\* with the comma before it.
NextItemText(p, m, o, nl) == Sep(nl) \o Render(DocItem(p, m + 1, o), nl)

\* The document of p pages cut off c tokens into that item.
Truncated(p, m, o, nl, c) ==
    OpenText(Render(SchemaDoc(p, m, o), nl), nl) \o SubSeq(NextItemText(p, m, o, nl), 1, c)

TruncatedCases ==
    UNION { { DocCase("truncated", Truncated(p, m, 0, nl, c), SchemaDoc(p, m, 0)) :
                c \in 0..(Len(NextItemText(p, m, 0, nl)) - 1) } :
            p \in 1..MaxDocPages, m \in 1..MaxDocItems, nl \in BOOLEAN }

DocCases == ValidCases \cup FencedCases \cup InvalidCases \cup TruncatedCases

\* The case a text belongs to.
CaseOf(text) == CHOOSE c \in DocCases : c.text = text

\* repair_json and the invokers on a complete document: schema-conformant,
\* bare or fenced, or structurally invalid.
InitDocs ==
    /\ raw_text \in { c.text : c \in ValidCases \cup FencedCases \cup InvalidCases }
    /\ repair_pc = "raw"
    /\ repaired = PyNone
    /\ json_object = NoText
    /\ fixed_text = <<>>
    /\ invoked_provider = "idle"
    /\ invoked = Raised
    /\ RetryIdle
    /\ OrchIdle
    /\ ServiceIdle
    /\ json5_available \in BOOLEAN

SpecDocs == InitDocs /\ [][RepairNext]_vars

\* repair_json and the invokers on a document that was cut off.
InitTruncated ==
    /\ raw_text \in { c.text : c \in TruncatedCases }
    /\ repair_pc = "raw"
    /\ repaired = PyNone
    /\ json_object = NoText
    /\ fixed_text = <<>>
    /\ invoked_provider = "idle"
    /\ invoked = Raised
    /\ RetryIdle
    /\ OrchIdle
    /\ ServiceIdle
    /\ json5_available \in BOOLEAN

SpecTruncated == InitTruncated /\ [][RepairNext]_vars

(***************************************************************************)
(* extract_json_object and fix_truncated_json, each on its own             *)
(***************************************************************************)
MaxBraceLen == 5
\* Texts of braces and digits.
BraceTexts == UNION {[1..n -> {LBRACE, RBRACE, "1"}] : n \in 0..MaxBraceLen}

\* A schema-conformant document of p pages of m items whose names hold no
\* brace or bracket.
PlainPage(j, m) ==
    WithItems(DocPage(j, 0, 0), PyList([i \in 1..m |-> DocItemKinds[(i % 2) + 1]]))
PlainDoc(p, m) == PyDict(<<[k |-> PAGEWISE, v |-> PyList([j \in 1..p |-> PlainPage(j, m)])]>>)
\* The prefixes of a text written one element per line that end with a line
\* whose last character is a comma, '}' or ']'.
ClosedLinePrefixes(text) ==
    { SubSeq(text, 1, c) : c \in { k \in 1..Len(text) :
                                      /\ text[k] \in {COMMA, RBRACE, RBRACKET}
                                      /\ k = Len(text) \/ text[k + 1] = NL } }
LinePrefixTexts ==
    UNION { ClosedLinePrefixes(Render(PlainDoc(p, m), TRUE)) :
              p \in 1..MaxDocPages, m \in 1..MaxDocItems }

\* One of the two functions is called on the text.
InitFixes ==
    /\ raw_text \in BraceTexts \cup LinePrefixTexts
    /\ repair_pc = "raw"
    /\ repaired = PyNone
    /\ json_object = NoText
    /\ fixed_text = <<>>
    /\ invoked_provider = "idle"
    /\ invoked = Raised
    /\ RetryIdle
    /\ OrchIdle
    /\ ServiceIdle
    /\ json5_available = FALSE

\* extract_json_object(text)
ExtractObject ==
    /\ repair_pc = "raw"
    /\ json_object' = extract_json_object(raw_text)
    /\ repair_pc' = "extracted"
    /\ UNCHANGED <<raw_text, repaired, fixed_text, invoked_provider, invoked>>
    /\ UNCHANGED <<retryVars, orchVars, serviceVars>>

\* fix_truncated_json(text)
FixTruncated ==
    /\ repair_pc = "raw"
    /\ fixed_text' = fix_truncated_json(raw_text)
    /\ repair_pc' = "fixed"
    /\ UNCHANGED <<raw_text, repaired, json_object, invoked_provider, invoked>>
    /\ UNCHANGED <<retryVars, orchVars, serviceVars>>

FixesNext == ExtractObject \/ FixTruncated

SpecFixes == InitFixes /\ [][FixesNext]_vars

(***************************************************************************)
(* The requests of the one InvoicesOCRService of main.py                   *)
(* The service keeps one temp_dir for its lifetime; every request writes   *)
(* its downloaded document and its page images there under fixed names.    *)
(* A coroutine runs without interruption between two awaits: the await of  *)
(* client.get, the await that closes the client after the document is      *)
(* written, and the await of file.read in the upload endpoint.             *)
(***************************************************************************)
MaxRequests == 2
MaxFilePages == 2

RequestIds == 1..MaxRequests

\* Paths: document<ext> and page_<n>.jpg in self.temp_dir, and the uploaded
\* file of request n in the directory its endpoint made for it.
Path(name, n) == [name |-> name, n |-> n]
NoPath == Path("", 0)
DocumentPath(ext) == Path(IF ext = ".pdf" THEN "document.pdf" ELSE "document.jpg", 0)
PagePath(i) == Path("page.jpg", i)
UploadPath(r) == Path("upload", r)
PagePaths == { PagePath(i) : i \in 1..MaxFilePages }
Paths ==
    { DocumentPath(ext) : ext \in {".pdf", ".jpg"} } \cup PagePaths
    \cup { UploadPath(r) : r \in RequestIds }

\* What goes wrong for a request, if anything: the download, the conversion
\* before any page is written, the save of page k, the extraction, or the
\* k-th os.remove of _cleanup.
Faults ==
    { [at |-> a, k |-> 0] : a \in {"none", "get", "convert", "extract"} }
    \cup { [at |-> "save", k |-> k] : k \in 1..MaxFilePages }
    \cup { [at |-> "remove", k |-> k] : k \in 1..MaxFilePages + 1 }

\* A request by URL (process_document) or by upload (process_file), of a PDF
\* of some pages or of an image.
Requests ==
    { [kind |-> kind, ext |-> shape[1], pages |-> shape[2], fault |-> fault,
       pc |-> "new", document_path |-> NoPath, read_from |-> 0] :
        kind \in {"url", "file"},
        shape \in { <<".pdf", n>> : n \in 1..MaxFilePages } \cup { <<".jpg", 1>> },
        fault \in Faults }
Feasible(q) ==
    /\ q.fault.at = "get" => q.kind = "url"
    /\ q.fault.at = "save" => q.fault.k <= q.pages
    /\ q.fault.at = "remove" => q.fault.k <= q.pages + 1

InitService ==
    /\ requests \in [RequestIds -> { q \in Requests : Feasible(q) }]
    /\ files = [p \in Paths |-> 0]
    /\ RetryIdle
    /\ OrchIdle
    /\ RepairIdle
    /\ json5_available = FALSE

\* fs after page_1.jpg .. page_n.jpg are written by request r
Written(fs, r, n) ==
    [p \in Paths |-> IF \E i \in 1..n : p = PagePath(i) THEN r ELSE fs[p]]

\* _convert_to_images(document_path): the conversion raises when the document
\* is not there or cannot be converted, and when the save of a page fails,
\* after the pages before it were saved; source is the request whose document
\* was read, pages its number of pages.
ConvertToImages(fs, r, fault, source, pages) ==
    IF source = 0 \/ fault.at = "convert"
    THEN [files |-> fs, raised |-> TRUE, image_paths |-> <<>>, source |-> 0]
    ELSE IF fault.at = "save" /\ fault.k <= pages
    THEN [files |-> Written(fs, r, fault.k - 1), raised |-> TRUE, image_paths |-> <<>>,
          source |-> source]
    ELSE [files |-> Written(fs, r, pages), raised |-> FALSE,
          image_paths |-> [i \in 1..pages |-> PagePath(i)], source |-> source]

\* _cleanup(document_path, image_paths): the files that exist are removed in
\* order; an os.remove that raises ends the clean-up, the exception is ignored.
Cleanup(fs, document_path, page_paths, fault) ==
    LET targets == SelectSeq(<<document_path>> \o page_paths,
                             LAMBDA p : p # NoPath /\ fs[p] # 0)
        removed == IF fault.at = "remove" /\ fault.k <= Len(targets)
                   THEN fault.k - 1 ELSE Len(targets)
    IN [p \in Paths |-> IF \E i \in 1..removed : targets[i] = p THEN 0 ELSE fs[p]]

\* The try and finally of process_document / process_file for request r with
\* the document at read_path; cleaned_path is what _cleanup is given as the
\* document. image_paths is not in locals() when the conversion raised.
RunPipeline(fs, r, q, read_path, cleaned_path, pages_of) ==
    LET converted == ConvertToImages(fs, r, q.fault, fs[read_path], pages_of[fs[read_path]])
        raised == converted.raised \/ q.fault.at = "extract"
    IN [files |-> Cleanup(converted.files, cleaned_path, converted.image_paths, q.fault),
        pc |-> IF raised THEN "raised" ELSE "returned",
        read_from |-> converted.source]

\* The number of pages of the document of each request; none for no document.
PagesOfDocuments == [r \in 0..MaxRequests |-> IF r = 0 THEN 0 ELSE requests[r].pages]

\* process_document is called: _download_document awaits client.get(url)
StartDownload ==
    \E r \in RequestIds :
        /\ requests[r].kind = "url"
        /\ requests[r].pc = "new"
        /\ requests' = [requests EXCEPT ![r].pc = "getting"]
        /\ UNCHANGED files
        /\ UNCHANGED <<retryVars, orchVars, repairVars>>

\* The response is there: raise_for_status raises, or the document is written
\* to temp_dir/document<ext> and the coroutine awaits the closing of the client.
FinishDownload ==
    \E r \in RequestIds :
        /\ requests[r].pc = "getting"
        /\ IF requests[r].fault.at = "get"
           THEN /\ requests' = [requests EXCEPT ![r].pc = "raised"]
                /\ UNCHANGED files
           ELSE /\ files' = [files EXCEPT ![DocumentPath(requests[r].ext)] = r]
                /\ requests' = [requests EXCEPT ![r].pc = "closing",
                                                ![r].document_path = DocumentPath(requests[r].ext)]
        /\ UNCHANGED <<retryVars, orchVars, repairVars>>

\* The rest of process_document, which has no await: conversion, extraction,
\* totals and the clean-up of the finally clause.
ProcessDocument ==
    \E r \in RequestIds :
        /\ requests[r].pc = "closing"
        /\ \E out \in { RunPipeline(files, r, requests[r], requests[r].document_path,
                                    requests[r].document_path, PagesOfDocuments) } :
              /\ files' = out.files
              /\ requests' = [requests EXCEPT ![r].pc = out.pc, ![r].read_from = out.read_from]
        /\ UNCHANGED <<retryVars, orchVars, repairVars>>

\* upload_invoice is called: it awaits file.read()
StartUpload ==
    \E r \in RequestIds :
        /\ requests[r].kind = "file"
        /\ requests[r].pc = "new"
        /\ requests' = [requests EXCEPT ![r].pc = "reading"]
        /\ UNCHANGED files
        /\ UNCHANGED <<retryVars, orchVars, repairVars>>

\* The upload is written to its own directory, process_file runs (it has no
\* await) and cleans up with document_path "", and the endpoint removes the
\* upload.
ProcessFile ==
    \E r \in RequestIds :
        /\ requests[r].pc = "reading"
        /\ \E out \in { RunPipeline([files EXCEPT ![UploadPath(r)] = r], r, requests[r],
                                    UploadPath(r), NoPath, PagesOfDocuments) } :
              /\ files' = [out.files EXCEPT ![UploadPath(r)] = 0]
              /\ requests' = [requests EXCEPT ![r].pc = out.pc, ![r].read_from = out.read_from,
                                              ![r].document_path = UploadPath(r)]
        /\ UNCHANGED <<retryVars, orchVars, repairVars>>

ServiceNext ==
    \/ StartDownload
    \/ FinishDownload
    \/ ProcessDocument
    \/ StartUpload
    \/ ProcessFile

SpecService == InitService /\ [][ServiceNext]_vars

(***************************************************************************)
(* _calculate_totals, and with it validate_and_clean_invoice_data, on      *)
(* bounded documents                                                       *)
(***************************************************************************)
\* A field that the item or page does not have.
Absent == [t |-> "absent"]
\* The dict of the fields that are present.
DictOf(fields) == PyDict(SelectSeq(fields, LAMBDA e : e.v # Absent))

NameInputs ==
    { PyStr(<<"Paracetamol">>),
      PyStr(<<"Vit", NL, "C", TAB>>),
      PyStr(<<SP, "Syrup", SP, SP, "X", CR>>),
      PyStr(<<"G", "S", "T", SP, "D", "I", "S", "C", "O", "U", "N", "T">>),
      PyStr(<<"t", "o", "t", "a", "l">>),
      PyStr(<<>>),
      PyStr(<<SP, NL>>),
      PyStr(UNKNOWN_ITEM),
      PyNone,
      PyNum(5),
      PyList(<<PyStr(<<"a", SP, SP, "b">>)>>),
      Absent }

\* Amounts whose original value is negative, and the other amounts.
NegativeAmountInputs ==
    { PyNum(0 - 500), PyStr(<<MINUS, "5">>), PyStr(<<MINUS, "1", COMMA, "0", "0", "0">>) }
AmountInputs ==
    NegativeAmountInputs
    \cup { PyNum(20), PyNum(0), PyStr(<<"1", COMMA, "0", "0", "0">>), PyStr(<<"abc">>),
           PyStr(<<"nan">>), PyNaN, PyBigInt, PyNone, PyBool(TRUE), Absent }
QuantityInputs ==
    { PyNum(2), PyNum(0 - 2), PyNum(0), PyStr(<<SP, "3", SP>>), PyStr(<<"two">>),
      PyNaN, PyBigInt, Absent }
RateInputs ==
    { PyNum(10), PyNum(0 - 10), PyNum(0), PyStr(<<"1", COMMA, "5", "0", "0">>),
      PyMilli(5), PyMilli(10), PyMilli(0 - 11), PyList(<<>>), Absent }

InputItem(name, quantity, rate, amount) ==
    DictOf(<<[k |-> ITEM_NAME, v |-> name], [k |-> ITEM_QUANTITY, v |-> quantity],
             [k |-> ITEM_RATE, v |-> rate], [k |-> ITEM_AMOUNT, v |-> amount]>>)
InputPage(page_no, page_type, bill_items) ==
    DictOf(<<[k |-> PAGE_NO, v |-> page_no], [k |-> PAGE_TYPE, v |-> page_type],
             [k |-> BILL_ITEMS, v |-> bill_items]>>)

\* Page types, each with the type the validated page is to have.
PageTypeInputs ==
    { [value |-> PyStr(BILL_DETAIL), expected |-> BILL_DETAIL],
      [value |-> PyStr(FINAL_BILL), expected |-> FINAL_BILL],
      [value |-> PyStr(PHARMACY), expected |-> PHARMACY],
      [value |-> PyStr(<<"pharmacy">>), expected |-> PHARMACY],
      [value |-> PyStr(<<"FINAL", SP, "BILL">>), expected |-> FINAL_BILL],
      [value |-> PyStr(<<SP, "Final", SP, "Bill", SP>>), expected |-> FINAL_BILL],
      [value |-> PyStr(<<SP, "bill", SP, "detail", NL>>), expected |-> BILL_DETAIL],
      [value |-> PyStr(<<"Final", SP, SP, "Bill">>), expected |-> BILL_DETAIL],
      [value |-> PyStr(<<"Invoice">>), expected |-> BILL_DETAIL],
      [value |-> PyStr(<<>>), expected |-> BILL_DETAIL],
      [value |-> PyStr(<<SP>>), expected |-> BILL_DETAIL],
      [value |-> PyNone, expected |-> BILL_DETAIL],
      [value |-> PyNum(5), expected |-> BILL_DETAIL],
      [value |-> PyBool(TRUE), expected |-> BILL_DETAIL],
      [value |-> PyList(<<PyStr(PHARMACY)>>), expected |-> BILL_DETAIL],
      [value |-> Absent, expected |-> BILL_DETAIL] }
PageNoInputs == { PyStr(<<"1">>), PyNum(2), PyNone, Absent }

\* Items for the documents of several items: kept, kept, negative, a total row.
FewItems ==
    { InputItem(PyStr(<<"Paracetamol">>), PyNum(2), PyNum(10), PyNum(20)),
      InputItem(PyStr(<<"Consultation">>), PyNum(1), PyNum(350), PyNum(0)),
      InputItem(PyStr(<<"Refund">>), PyNum(1), PyNum(0), PyNum(0 - 500)),
      InputItem(PyStr(<<"T", "O", "T", "A", "L">>), PyNum(1), PyNum(370), PyNum(370)) }
ItemLists == { <<>> } \cup { <<a>> : a \in FewItems } \cup { <<a, b>> : a, b \in FewItems }

\* One page with one item, every combination of field values.
OneItemDocs ==
    { OnePage(InputPage(PyStr(<<"1">>), PyStr(PHARMACY),
                        PyList(<<InputItem(name, quantity, rate, amount)>>))) :
        name \in NameInputs, quantity \in QuantityInputs, rate \in RateInputs,
        amount \in AmountInputs }
\* One page of two items, every page type and page number.
OnePageDocs ==
    { OnePage(InputPage(page_no, page_type.value, PyList(items))) :
        page_no \in PageNoInputs, page_type \in PageTypeInputs,
        items \in { <<a, b>> : a, b \in FewItems } }
\* Two pages.
TwoPageDocs ==
    { PyDict(<<[k |-> PAGEWISE,
                v |-> PyList(<<InputPage(PyStr(<<"1">>), PyStr(FINAL_BILL), PyList(first)),
                               InputPage(PyStr(<<"2">>), PyStr(<<"pharmacy">>), PyList(second))>>)]>>) :
        first \in ItemLists, second \in ItemLists }
\* Values of the wrong shape at every level.
MisshapenDocs ==
    { PyNone, PyList(<<>>), PyStr(<<"x">>), PyDict(<<>>),
      PyDict(<<[k |-> PAGEWISE, v |-> PyNone]>>),
      PyDict(<<[k |-> PAGEWISE, v |-> PyStr(<<"x">>)]>>),
      OnePage(PyNum(1)), OnePage(PyNone), OnePage(PyDict(<<>>)) }
    \cup { OnePage(InputPage(PyStr(<<"1">>), PyStr(PHARMACY), bill_items)) :
            bill_items \in { PyNone, PyNum(1), PyStr(<<"x">>), PyDict(<<>>), Absent,
                             PyList(<<PyNum(1), PyNone>>),
                             PyList(<<PyStr(<<"x">>),
                                      InputItem(PyStr(<<"Paracetamol">>), PyNum(2), PyNum(10),
                                                PyNum(20))>>) } }

\* Item names for the non-billable-row filter: keywords alone, at either end
\* after a space, a colon or a hyphen, inside a longer token, and in lower case.
FilterNames ==
    { <<"G", "S", "T">>,
      <<"g", "s", "t">>,
      <<"T", "O", "T", "A", "L", SP, "G", "S", "T">>,
      <<"M", "E", "D", "I", "C", "I", "N", "E", SP, "G", "S", "T">>,
      <<"T", "A", "X", COLON, "X">>,
      <<"X", COLON, "T", "A", "X">>,
      <<"T", "A", "X", MINUS, "5">>,
      <<"5", MINUS, "T", "A", "X">>,
      <<"X", "T", "A", "X">>,
      <<"T", "A", "X", "O", "L">>,
      <<"X", SP, "T", "A", "X", SP, "X">>,
      <<"S", "U", "B", "T", "O", "T", "A", "L", "S">>,
      <<"N", "O", SP, "D", "I", "S", "C", "O", "U", "N", "T", "S">>,
      <<"S", "U", "B", MINUS, "T", "O", "T", "A", "L">>,
      <<"S", "U", "B", MINUS, "T", "O", "T", "A", "L", "S">>,
      <<"R", "O", "U", "N", "D", "I", "N", "G">>,
      <<"T", "O", "T", "A", "L", "L", "Y">>,
      <<"R", "o", "u", "n", "d", SP, "O", "f", "f">>,
      <<"S", "y", "r", "u", "p">> }
\* One page with one item of quantity 1, rate 10 and amount 10 under each name.
FilterDocs ==
    { OnePage(InputPage(PyStr(<<"1">>), PyStr(BILL_DETAIL),
                        PyList(<<InputItem(PyStr(name), PyNum(1), PyNum(10), PyNum(10))>>))) :
        name \in FilterNames }

ValidatorDocs == OneItemDocs \cup OnePageDocs \cup TwoPageDocs \cup MisshapenDocs \cup FilterDocs

\* _calculate_totals is called with the document.
InitValidate ==
    /\ extracted_data \in ValidatorDocs
    /\ pc = "totals"
    /\ provider = "idle"
    /\ json5_available = FALSE
    /\ image_paths = <<>>
    /\ pages_per_chunk = 0
    /\ loop_i = 0
    /\ all_pagewise_items = <<>>
    /\ total_tokens = 0
    /\ total_input_tokens = 0
    /\ total_output_tokens = 0
    /\ token_usage = ZeroUsage
    /\ invoice_data = NoInvoice
    /\ validated_data = <<>>
    /\ invocations = <<>>
    /\ RetryIdle
    /\ RepairIdle
    /\ ServiceIdle

SpecValidate == InitValidate /\ [][CalculateTotals]_vars

(***************************************************************************)
(* Claims about the retry controller (checked under SpecRetry)             *)
(***************************************************************************)
RetryDone == retry_pc \in {"returned", "raised"}

\* C6: with max_retries = m >= 0 the operation is called at least once and at
\* most m+1 times; the first successful attempt ends the run and its result is
\* returned with no further call; when all m+1 attempts fail the exception
\* raised is the one of the last attempt. Both the function and the decorator.
C6_RetryAttempts ==
    /\ Len(calls) <= config.max_retries + 1
    /\ \A k \in 1..Len(calls) : calls[k].ok => k = Len(calls) /\ retry_pc = "returned"
    /\ RetryDone => Len(calls) >= 1
    /\ retry_pc = "returned" => calls[Len(calls)].ok /\ retry_out = "result"
    /\ retry_pc = "raised" =>
          /\ Len(calls) = config.max_retries + 1
          /\ \A k \in 1..Len(calls) : ~calls[k].ok
          /\ retry_out = calls[Len(calls)].exc

C6_Witness ==
    /\ retry_pc = "raised"
    /\ variant = "retry_with_config"
    /\ Len(calls) = 3
    /\ calls[1].exc # calls[3].exc

\* The number of sleeps: one after each failed attempt that is followed by
\* another attempt, none after the final one.
SleepsBetweenAttempts ==
    /\ retry_pc = "loop" => Len(sleeps) = Len(calls)
    /\ retry_pc \in {"exhausted", "returned", "raised"} => Len(sleeps) = Len(calls) - 1

Chunked == Len(image_paths) > pages_per_chunk
\* process_with_structured_output is over: it returned or it raised.
OrchestrationOver == pc \in {"count", "totals", "done", "raised"}
\* process_with_structured_output returned a document to its caller.
OrchestrationReturned == pc \in {"count", "totals", "done"}

\* C1: whatever text a nominally successful response holds, and whichever backend
\* is active, no invoker raises on it and the request does not raise.
C1_MalformedTextNeverAborts ==
    (\A k \in 1..Len(invocations) : invocations[k].transport_ok)
        => /\ pc # "raised"
           /\ \A k \in 1..Len(invocations) : ~invocations[k].invoker_raised

\* The pages of the batches that did not fail, in batch order.
PagesOfSucceeded(log) ==
    Flatten([k \in 1..Len(log) |-> IF log[k].failed THEN <<>> ELSE log[k].pages], 1, Len(log))

\* C2: in chunked processing a failed batch is skipped and every later batch is
\* still invoked; the combined pages are the concatenation, in batch order and
\* unchanged, of the pages of the batches that did not fail.
C2_FailedBatchSkipped ==
    Chunked =>
        /\ all_pagewise_items = PagesOfSucceeded(invocations)
        /\ pc = "chunks" => loop_i = Len(invocations) * pages_per_chunk
        /\ OrchestrationOver =>
              /\ Len(invocations) = Ceil(Len(image_paths), pages_per_chunk)
              /\ extracted_data =
                    PyDict(<<[k |-> PAGEWISE, v |-> PyList(PagesOfSucceeded(invocations))]>>)

\* A chunked request that finished although an earlier batch failed, with the
\* pages of a later batch in the result.
C2_Witness ==
    /\ Chunked
    /\ pc = "done"
    /\ \E j, k \in 1..Len(invocations) :
          /\ j < k
          /\ invocations[j].failed
          /\ ~invocations[k].failed
          /\ invocations[k].pages # <<>>

\* C3: when the backend invocation of every batch fails, the extraction raises
\* instead of returning a result; said of the returned result: a request that
\* returned had an invocation that did not fail.
C3_AllFailedPropagates ==
    OrchestrationReturned
        => \E k \in 1..Len(invocations) : ~invocations[k].invoker_raised

\* C4: when a batch yields a page with a billable, well-formed item, the request
\* does not raise and its result holds an item, whatever the other batches gave.
C4_PartialResultPreferred ==
    (\E k \in 1..Len(invocations) :
        ~invocations[k].failed /\ ValidatedPages(invocations[k].pages) # <<>>)
        => /\ pc # "raised"
           /\ pc = "done" => invoice_data.total_item_count >= 1

\* C5: every invocation goes through the retry controller: one that fails was
\* attempted the configured number of retries more than once.
C5_InvocationsRetried ==
    \A k \in 1..Len(invocations) :
        invocations[k].invoker_raised
            => Len(invocations[k].attempts) = ConfiguredMaxRetries + 1

\* The images of the k-th batch of s images out of the n.
ExpectedChunk(k) ==
    [j \in 1..Min(pages_per_chunk, Len(image_paths) - (k - 1) * pages_per_chunk) |->
        image_paths[(k - 1) * pages_per_chunk + j]]
ExpectedInvocations ==
    IF Chunked THEN Ceil(Len(image_paths), pages_per_chunk) ELSE 1

\* C8: n images with batch size s give ceil(n/s) invocations when n > s, the k-th
\* over the consecutive images (k-1)*s .. k*s-1, every batch but the last of s
\* images, every image sent exactly once; n <= s gives one invocation with all.
C8_BatchPartition ==
    /\ Len(invocations) <= ExpectedInvocations
    /\ OrchestrationOver => Len(invocations) = ExpectedInvocations
    /\ \A k \in 1..Len(invocations) :
          /\ invocations[k].chunk = IF Chunked THEN ExpectedChunk(k) ELSE image_paths
          /\ Chunked /\ k < ExpectedInvocations
                => Len(invocations[k].chunk) = pages_per_chunk
    /\ OrchestrationOver =>
          \A img \in 1..Len(image_paths) :
              Cardinality({kj \in (1..Len(invocations)) \X (1..Len(image_paths)) :
                              /\ kj[2] <= Len(invocations[kj[1]].chunk)
                              /\ invocations[kj[1]].chunk[kj[2]] = image_paths[img]}) = 1

\* 7 images in batches of 3: three invocations of 3, 3 and 1 images.
C8_Witness ==
    /\ Len(image_paths) = 7
    /\ pages_per_chunk = 3
    /\ pc = "done"
    /\ Len(invocations) = 3
    /\ Len(invocations[1].chunk) = 3
    /\ Len(invocations[2].chunk) = 3
    /\ Len(invocations[3].chunk) = 1

\* The sum of the numbers of a sequence.
RECURSIVE SumSeq(_)
SumSeq(nums) == IF nums = <<>> THEN 0 ELSE Head(nums) + SumSeq(Tail(nums))
\* The token counts a batch contributes: those it reported when it did not fail.
Counted(entry) == IF entry.failed THEN ZeroUsage ELSE entry.usage

\* C9: after chunked orchestration each token counter is the sum of that counter
\* over the batches that succeeded; a failed batch adds nothing to any counter,
\* and a batch adds its tokens exactly when it adds its pages.
C9_TokenTotals ==
    Chunked =>
        /\ total_tokens =
              SumSeq([k \in 1..Len(invocations) |-> Counted(invocations[k]).total_tokens])
        /\ total_input_tokens =
              SumSeq([k \in 1..Len(invocations) |-> Counted(invocations[k]).input_tokens])
        /\ total_output_tokens =
              SumSeq([k \in 1..Len(invocations) |-> Counted(invocations[k]).output_tokens])
        /\ all_pagewise_items = PagesOfSucceeded(invocations)
        /\ OrchestrationOver =>
              token_usage = Usage(total_tokens, total_input_tokens, total_output_tokens)

\* A chunked request that finished with two batches counted and, between them,
\* a batch that reported tokens and failed.
C9_Witness ==
    /\ Chunked
    /\ pc = "done"
    /\ Len(invocations) = 3
    /\ ~invocations[1].failed /\ invocations[1].usage.total_tokens > 0
    /\ invocations[2].failed /\ invocations[2].usage.total_tokens > 0
    /\ ~invocations[3].failed /\ invocations[3].usage.total_tokens > 0

(***************************************************************************)
(* Claims about the repair cascade (checked under SpecRepair)              *)
(***************************************************************************)
\* The text holds no brace and json.loads rejects it.
BracelessGarbage(text) ==
    /\ \A k \in 1..Len(text) : text[k] \notin {LBRACE, RBRACE}
    /\ ~json_loads(text).ok

\* C10: for a raw text without braces that is not valid JSON, repair_json gives
\* None and the repairing invokers return the empty document without raising.
C10_GarbageGivesEmpty ==
    BracelessGarbage(raw_text) =>
        /\ repair_pc \in {"repaired", "invoked"} => repaired = PyNone
        /\ repair_pc = "invoked" /\ invoked_provider \in {"gemini", "ollama"}
              => /\ ~invoked.raised
                 /\ invoked.result = get_empty_invoice_structure

(***************************************************************************)
(* Claims about the repair cascade on invoice documents                    *)
(***************************************************************************)
\* repair_json has run on the text.
RepairDone == repair_pc \in {"repaired", "invoked"}

\* C11: for a schema-conformant document cut off inside a bill_items array
\* after a complete item, repair_json returns the document made of the pages
\* and items that are complete in the text (checked under SpecTruncated).
C11_TruncatedRecovered ==
    RepairDone => repaired = CaseOf(raw_text).doc

\* The invoker has handled the text as the content of a successful response.
InvokedBy(p) == repair_pc = "invoked" /\ invoked_provider = p

\* The page sequence of a parsed document is a non-empty list.
HoldsPages(doc) ==
    /\ IsDict(doc)
    /\ HasKey(doc, PAGEWISE)
    /\ IsList(Lookup(doc, PAGEWISE))
    /\ Lookup(doc, PAGEWISE).items # <<>>

\* C12: on both backends that repair text (gemini, ollama), a parsed document
\* that fails structural validation is returned as it is when its page sequence
\* is non-empty, and the empty document is returned when it is missing or empty
\* (checked under SpecDocs).
C12_PartialContentKept ==
    \A p \in {"gemini", "ollama"} :
        InvokedBy(p) /\ CaseOf(raw_text).kind = "invalid"
            => /\ ~invoked.raised
               /\ invoked.result = IF HoldsPages(CaseOf(raw_text).doc)
                                    THEN CaseOf(raw_text).doc
                                    ELSE get_empty_invoice_structure

\* C13: for a well-formed text that matches the invoice schema, repair_json
\* returns what the direct parse gives, which is the document the text stands
\* for; validate_invoice_structure accepts it and every invoker returns it
\* unchanged (checked under SpecDocs).
C13_ValidTextUnchanged ==
    CaseOf(raw_text).kind = "valid" =>
        /\ RepairDone =>
              /\ json_loads(raw_text).ok
              /\ repaired = json_loads(raw_text).val
              /\ repaired = CaseOf(raw_text).doc
              /\ validate_invoice_structure(repaired)
        /\ repair_pc = "invoked" =>
              /\ ~invoked.raised
              /\ invoked.result = CaseOf(raw_text).doc

\* A document of two pages with two items each, one item per line, handled by
\* the ollama invoker.
C13_Witness ==
    /\ InvokedBy("ollama")
    /\ CaseOf(raw_text).kind = "valid"
    /\ CaseOf(raw_text).doc = SchemaDoc(2, 2, 1)
    /\ \E k \in 1..Len(raw_text) : raw_text[k] = NL
    /\ invoked.result = SchemaDoc(2, 2, 1)

\* C14: for a schema-valid object preceded by brace-free prose and wrapped in
\* a json code fence, repair_json returns the document that parsing the bare
\* object gives (checked under SpecDocs).
C14_FencedSameAsBare ==
    RepairDone /\ CaseOf(raw_text).kind = "fenced"
        => repaired = CaseOf(raw_text).doc

\* C15: repair_json returns None or a dict, never another kind of value
\* (checked under SpecRepair).
C15_DictOrNone ==
    RepairDone => repaired = PyNone \/ IsDict(repaired)


(***************************************************************************)
(* Claims about validate_and_clean_invoice_data                            *)
(***************************************************************************)
\* _calculate_totals has validated the document and built the InvoiceData.
IsValidated == pc = "done"

\* The dict that a validated item, page or document is in Python: what a
\* second call of validate_and_clean_invoice_data receives.
AsItem(validated_item) ==
    PyDict(<<[k |-> ITEM_NAME, v |-> PyStr(validated_item.item_name)],
             [k |-> ITEM_QUANTITY, v |-> validated_item.item_quantity],
             [k |-> ITEM_RATE, v |-> validated_item.item_rate],
             [k |-> ITEM_AMOUNT, v |-> validated_item.item_amount]>>)
AsPage(validated_page) ==
    PyDict(<<[k |-> PAGE_NO, v |-> PyStr(validated_page.page_no)],
             [k |-> PAGE_TYPE, v |-> PyStr(validated_page.page_type)],
             [k |-> BILL_ITEMS,
              v |-> PyList([k \in 1..Len(validated_page.bill_items) |->
                               AsItem(validated_page.bill_items[k])])]>>)
AsDocument(validated) ==
    PyDict(<<[k |-> PAGEWISE,
              v |-> PyList([k \in 1..Len(validated) |-> AsPage(validated[k])])]>>)

\* C16: validate_and_clean_invoice_data is idempotent: validating the validated
\* document gives the same pages, page fields, items and item fields (checked
\* under SpecValidate).
C16_ValidateIdempotent ==
    IsValidated =>
        /\ ~ValidateRaises(AsDocument(validated_data))
        /\ validate_and_clean_invoice_data(AsDocument(validated_data)) = validated_data


\* f >= 0 of a float, which is false of nan
AtLeastZero(f) == ~IsNaN(f) /\ MilliOf(f) >= 0

\* C17: every item of the validated document has item_amount >= 0,
\* item_rate >= 0 and item_quantity >= 0, and a name without control characters
\* (checked under SpecValidate).
C17_ItemsNonNegative ==
    IsValidated =>
        \A p \in 1..Len(validated_data) :
            \A k \in 1..Len(validated_data[p].bill_items) :
                LET item == validated_data[p].bill_items[k] IN
                /\ AtLeastZero(item.item_amount)
                /\ AtLeastZero(item.item_rate)
                /\ AtLeastZero(item.item_quantity)
                /\ \A c \in 1..Len(item.item_name) : item.item_name[c] \notin Unprintable


\* The pages of the input that the validated document keeps, in their order.
InputPages(data) ==
    IF IsDict(data) /\ IsList(Get(data, PAGEWISE, PyList(<<>>)))
    THEN SelectSeq(Get(data, PAGEWISE, PyList(<<>>)).items,
                   LAMBDA page_data : KeptPage(page_data) # <<>>)
    ELSE <<>>
\* The type that the page type of an input page is to become.
ExpectedType(page_type) == (CHOOSE r \in PageTypeInputs : r.value = page_type).expected
PageTypes(pages) == [p \in 1..Len(pages) |-> pages[p].page_type]

\* C18: every page of the validated document and of the final InvoiceData has
\* a page_type among 'Bill Detail', 'Final Bill', 'Pharmacy': an exact match is
\* kept, a case-insensitive match becomes the canonical value, and anything
\* else (null, empty, missing, unknown, non-string) becomes 'Bill Detail'
\* (checked under SpecValidate).
C18_PageTypeCanonical ==
    IsValidated =>
        /\ \A p \in 1..Len(validated_data) :
              validated_data[p].page_type \in {BILL_DETAIL, FINAL_BILL, PHARMACY}
        /\ PageTypes(validated_data) =
              [p \in 1..Len(InputPages(extracted_data)) |->
                  ExpectedType(Get(InputPages(extracted_data)[p], PAGE_TYPE, Absent))]
        /\ PageTypes(invoice_data.pagewise_line_items) = PageTypes(validated_data)

\* A page whose type is written 'pharmacy' follows a page of type 'Final Bill':
\* both are kept, the second as 'Pharmacy'.
C18_Witness ==
    /\ IsValidated
    /\ Len(InputPages(extracted_data)) = 2
    /\ Get(InputPages(extracted_data)[2], PAGE_TYPE, Absent) = PyStr(<<"pharmacy">>)
    /\ PageTypes(invoice_data.pagewise_line_items) = <<FINAL_BILL, PHARMACY>>


\* C19: validate_and_clean_invoice_data never raises: for every input value it
\* returns a document, so that _calculate_totals, which calls it outside any
\* try, goes on to build the InvoiceData and leaves its argument as it was
\* (checked under SpecValidate).
C19_ValidateNeverRaises ==
    /\ pc # "raised"
    /\ IsValidated => ~ValidateRaises(extracted_data)


\* The dict items of every dict page of the input, in one sequence.
ItemsOfPage(page_data) ==
    IF IsDict(page_data)
    THEN SelectSeq(ItemsOf(Get(page_data, BILL_ITEMS, PyList(<<>>))), IsDict)
    ELSE <<>>
InputItems(data) ==
    IF IsDict(data) /\ IsList(Get(data, PAGEWISE, PyList(<<>>)))
    THEN LET pages == Get(data, PAGEWISE, PyList(<<>>)).items IN
         Flatten([p \in 1..Len(pages) |-> ItemsOfPage(pages[p])], 1, Len(pages))
    ELSE <<>>
\* The input items whose original amount is not negative.
OriginalNotNegative(item) == Get(item, ITEM_AMOUNT, Absent) \notin NegativeAmountInputs
\* The items of every validated page, in one sequence.
OutputItems(validated) ==
    Flatten([p \in 1..Len(validated) |-> validated[p].bill_items], 1, Len(validated))

\* C20: an item is in the validated document only if its original amount is
\* not negative and its cleaned name is neither empty nor 'Unknown Item': each
\* output item is the validated form of an input item whose original amount is
\* not negative, and there are no more output items than such input items, so
\* that an item with a negative original amount is removed whatever its name,
\* quantity and rate (checked under SpecValidate).
C20_NegativeAmountRemoved ==
    IsValidated =>
        LET eligible == SelectSeq(InputItems(extracted_data), OriginalNotNegative)
            output == OutputItems(validated_data)
        IN
        /\ Len(output) <= Len(eligible)
        /\ \A k \in 1..Len(output) :
              /\ output[k].item_name \notin {<<>>, UNKNOWN_ITEM}
              /\ \E j \in 1..Len(eligible) : output[k] = validate_bill_item(eligible[j])

\* A page holds Paracetamol (amount 20) and then Refund (amount -500): the
\* first is kept and the second removed.
C20_Witness ==
    /\ IsValidated
    /\ Len(InputItems(extracted_data)) = 2
    /\ Get(InputItems(extracted_data)[2], ITEM_NAME, Absent) = PyStr(<<"Refund">>)
    /\ Get(InputItems(extracted_data)[2], ITEM_AMOUNT, Absent) = PyNum(0 - 500)
    /\ Len(OutputItems(validated_data)) = 1
    /\ OutputItems(validated_data)[1].item_name = <<"Paracetamol">>


(***************************************************************************)
(* Claims about the amount reconciliation of validate_bill_item            *)
(***************************************************************************)
\* The coerced quantity, rate and amount of an input item.
CoercedQuantity(item) == validate_numeric_field(Get(item, ITEM_QUANTITY, PyNum(1)), 1)
CoercedRate(item) == validate_numeric_field(Get(item, ITEM_RATE, PyNum(0)), 0)
CoercedAmount(item) == validate_numeric_field(Get(item, ITEM_AMOUNT, PyNum(0)), 0)
CoercedProduct(item) == Times(CoercedQuantity(item), CoercedRate(item))

\* The document holds one dict item, and validation has kept it.
OneItemKept ==
    /\ IsValidated
    /\ Len(InputItems(extracted_data)) = 1
    /\ Len(OutputItems(validated_data)) = 1

\* C21: an item whose coerced amount is exactly zero and whose coerced
\* quantity times coerced rate is positive leaves validation with that product
\* as its amount, however small the product: no validated item has amount zero
\* and a positive quantity times rate (checked under SpecValidate).
C21_ZeroAmountRecomputed ==
    /\ IsValidated =>
          \A k \in 1..Len(OutputItems(validated_data)) :
              LET item == OutputItems(validated_data)[k] IN
              Equals(item.item_amount, 0)
                  => ~Above(Times(item.item_quantity, item.item_rate), 0)
    /\ OneItemKept =>
          LET item == InputItems(extracted_data)[1] IN
          Equals(CoercedAmount(item), 0) /\ Above(CoercedProduct(item), 0)
              => OutputItems(validated_data)[1].item_amount = CoercedProduct(item)


\* C22: the reconciliation leaves item_quantity and item_rate as they were
\* coerced, and leaves a non-zero coerced amount as it is even when it differs
\* from quantity times rate by more than the tolerance: every validated item is
\* an input item with its coerced quantity and rate and, unless the coerced
\* amount is zero, its coerced amount (checked under SpecValidate).
C22_ReconcileFrame ==
    /\ IsValidated =>
          \A k \in 1..Len(OutputItems(validated_data)) :
              \E j \in 1..Len(InputItems(extracted_data)) :
                  LET item == InputItems(extracted_data)[j]
                      validated_item == OutputItems(validated_data)[k]
                  IN
                  /\ validated_item.item_quantity = CoercedQuantity(item)
                  /\ validated_item.item_rate = CoercedRate(item)
                  /\ ~Equals(CoercedAmount(item), 0)
                        => validated_item.item_amount = CoercedAmount(item)
    /\ OneItemKept =>
          LET item == InputItems(extracted_data)[1]
              validated_item == OutputItems(validated_data)[1]
          IN
          /\ validated_item.item_quantity = CoercedQuantity(item)
          /\ validated_item.item_rate = CoercedRate(item)
          /\ ~Equals(CoercedAmount(item), 0)
                => validated_item.item_amount = CoercedAmount(item)

\* Quantity -2, rate 10 and amount '1,000': the amount stays 1000 although
\* quantity times rate is 20.
C22_Witness ==
    /\ OneItemKept
    /\ Get(InputItems(extracted_data)[1], ITEM_QUANTITY, Absent) = PyNum(0 - 2)
    /\ Get(InputItems(extracted_data)[1], ITEM_RATE, Absent) = PyNum(10)
    /\ Get(InputItems(extracted_data)[1], ITEM_AMOUNT, Absent)
          = PyStr(<<"1", COMMA, "0", "0", "0">>)
    /\ OutputItems(validated_data)[1].item_quantity = PyNum(2)
    /\ OutputItems(validated_data)[1].item_rate = PyNum(10)
    /\ OutputItems(validated_data)[1].item_amount = PyNum(1000)


(***************************************************************************)
(* Claims about the non-billable-row filter                                *)
(***************************************************************************)
\* The document is one of FilterDocs and has been validated; its item's name.
FilterDocValidated == IsValidated /\ extracted_data \in FilterDocs
FilterDocName == Get(InputItems(extracted_data)[1], ITEM_NAME, Absent).s
\* The item of the document was removed: no page is left.
ItemRemoved == validated_data = <<>>

\* The filter as the specification words it: a strongly-specific keyword
\* anywhere in the upper-cased name, or a generic keyword that is the whole
\* name or stands at its start or end next to a space or a punctuation mark.
StrongAsStated ==
    { <<"D", "I", "S", "C", "O", "U", "N", "T">>,
      KwSUB \o KwTOTAL, KwSUB \o <<SP>> \o KwTOTAL,
      <<"G", "R", "A", "N", "D", SP>> \o KwTOTAL,
      <<"N", "E", "T", SP>> \o KwTOTAL,
      <<"A", "M", "O", "U", "N", "T", SP>> \o KwTOTAL,
      <<"R", "O", "U", "N", "D", SP, "O", "F", "F">>,
      <<"R", "O", "U", "N", "D", "I", "N", "G">> }
SeparatorsAsStated == {SP, COLON, MINUS, COMMA}
FilteredAsStated(name_upper) ==
    \/ \E keyword \in StrongAsStated : Contains(name_upper, keyword)
    \/ \E keyword \in exact_keywords :
          \/ name_upper = keyword
          \/ /\ Len(name_upper) > Len(keyword)
             /\ StartsWith(name_upper, keyword)
             /\ name_upper[Len(keyword) + 1] \in SeparatorsAsStated
          \/ /\ Len(name_upper) > Len(keyword)
             /\ EndsWithSeq(name_upper, keyword)
             /\ name_upper[Len(name_upper) - Len(keyword)] \in SeparatorsAsStated

\* C23: the filter removes an item exactly when its upper-cased cleaned name
\* contains a strongly-specific keyword, or is a generic keyword, or starts or
\* ends with a generic keyword next to a space or punctuation; a name with a
\* generic keyword inside a longer token is kept (checked under SpecValidate).
C23_FilterAsStated ==
    FilterDocValidated =>
        (ItemRemoved <=> FilteredAsStated(Upper(FilterDocName)))

\* C28: an item named 'MEDICINE GST', a product name followed by a generic tax
\* keyword, is kept, while 'GST' and 'TOTAL GST' are removed (checked under
\* SpecValidate).
C28_ProductBeforeTaxKeyword ==
    FilterDocValidated =>
        /\ FilterDocName = <<"M", "E", "D", "I", "C", "I", "N", "E", SP, "G", "S", "T">>
              => ~ItemRemoved
        /\ FilterDocName \in {<<"G", "S", "T">>, KwTOTAL \o <<SP, "G", "S", "T">>}
              => ItemRemoved


(***************************************************************************)
(* Claims about the pages and the item count of the result                 *)
(***************************************************************************)
\* a is b with some of its elements left out.
RECURSIVE IsSubSeq(_, _)
IsSubSeq(a, b) ==
    IF a = <<>> THEN TRUE
    ELSE IF b = <<>> THEN FALSE
    ELSE \/ Head(a) = Head(b) /\ IsSubSeq(Tail(a), Tail(b))
         \/ IsSubSeq(a, Tail(b))

\* The dict pages of the input, each with its number as a string and the
\* validated form of each of its dict items.
InputDictPages(data) ==
    IF IsDict(data) /\ IsList(Get(data, PAGEWISE, PyList(<<>>)))
    THEN SelectSeq(Get(data, PAGEWISE, PyList(<<>>)).items, IsDict)
    ELSE <<>>
Shadow(page_data) ==
    [page_no |-> StrOf(Get(page_data, PAGE_NO, PyStr(<<"1">>))),
     bill_items |-> [k \in 1..Len(ItemsOfPage(page_data)) |->
                        validate_bill_item(ItemsOfPage(page_data)[k])]]
\* The output pages are input pages in their order, each with items of that
\* input page in their order.
RECURSIVE PagesFrom(_, _)
PagesFrom(output, input) ==
    IF output = <<>> THEN TRUE
    ELSE IF input = <<>> THEN FALSE
    ELSE \/ /\ Head(output).page_no = Shadow(Head(input)).page_no
            /\ IsSubSeq(Head(output).bill_items, Shadow(Head(input)).bill_items)
            /\ PagesFrom(Tail(output), Tail(input))
         \/ PagesFrom(output, Tail(input))

\* The pages of the InvoiceData, without their page_type.
Untyped(pages) ==
    [p \in 1..Len(pages) |-> [page_no |-> pages[p].page_no, bill_items |-> pages[p].bill_items]]

\* C24: every page of the validated document and of the final InvoiceData has
\* at least one item, a page whose items are all removed (or that had none) is
\* dropped, and the surviving pages and items keep their input order (checked
\* under SpecValidate).
C24_NoEmptyPage ==
    IsValidated =>
        /\ \A p \in 1..Len(validated_data) : validated_data[p].bill_items # <<>>
        /\ \A p \in 1..Len(invoice_data.pagewise_line_items) :
              invoice_data.pagewise_line_items[p].bill_items # <<>>
        /\ PagesFrom(validated_data, InputDictPages(extracted_data))
        /\ Untyped(invoice_data.pagewise_line_items) = Untyped(validated_data)

\* Page 1 holds only a refund of -500 and page 2 holds Paracetamol and then
\* Consultation: page 2 alone is left, with both items in that order.
C24_Witness ==
    /\ IsValidated
    /\ Len(InputDictPages(extracted_data)) = 2
    /\ Len(ItemsOfPage(InputDictPages(extracted_data)[1])) = 1
    /\ Len(invoice_data.pagewise_line_items) = 1
    /\ invoice_data.pagewise_line_items[1].page_no = <<"2">>
    /\ Len(invoice_data.pagewise_line_items[1].bill_items) = 2
    /\ [k \in 1..2 |-> invoice_data.pagewise_line_items[1].bill_items[k].item_name]
          = <<<<"Paracetamol">>, <<"Consultation">>>>


\* C25: total_item_count of the InvoiceData is the sum of the numbers of
\* bill_items of its pages, which is the number of items that validation has
\* kept; identical rows of a page are each counted (checked under SpecValidate).
C25_ItemCount ==
    IsValidated =>
        /\ invoice_data.total_item_count
              = Len(OutputItems(invoice_data.pagewise_line_items))
        /\ invoice_data.total_item_count = Len(OutputItems(validated_data))

\* A page that holds the same Paracetamol row twice: both are counted.
C25_Witness ==
    /\ IsValidated
    /\ Len(invoice_data.pagewise_line_items) = 1
    /\ Len(invoice_data.pagewise_line_items[1].bill_items) = 2
    /\ invoice_data.pagewise_line_items[1].bill_items[1]
          = invoice_data.pagewise_line_items[1].bill_items[2]
    /\ invoice_data.total_item_count = 2


(***************************************************************************)
(* Claims about extract_json_object and fix_truncated_json                 *)
(***************************************************************************)
\* The depth at position k when the count starts at position a: the '{' in
\* a..k less the '}' in a..k.
DepthFrom(text, a, k) ==
    Cardinality({j \in a..k : text[j] = LBRACE}) - Cardinality({j \in a..k : text[j] = RBRACE})
\* The first '{' of the text, and the '}' that matches it (0 when there is none).
FirstOpen(text) ==
    IF Count(text, LBRACE) = 0 THEN 0
    ELSE CHOOSE a \in 1..Len(text) : text[a] = LBRACE /\ \A j \in 1..a - 1 : text[j] # LBRACE
MatchOf(text, a) ==
    LET closes == {k \in a..Len(text) : text[k] = RBRACE /\ DepthFrom(text, a, k) = 0} IN
    IF a = 0 \/ closes = {} THEN 0 ELSE CHOOSE k \in closes : \A j \in closes : k <= j

\* C29: when the first '{' of the text has a matching '}', extract_json_object
\* returns the text from that '{' through that '}', also when unmatched '}'
\* stand before it; whatever it returns has as many '}' as '{' (checked under
\* SpecFixes).
C29_ExtractsFirstObject ==
    repair_pc = "extracted" =>
        /\ MatchOf(raw_text, FirstOpen(raw_text)) # 0
              => json_object = SomeText(SubSeq(raw_text, FirstOpen(raw_text),
                                               MatchOf(raw_text, FirstOpen(raw_text))))
        /\ json_object.found
              => Count(json_object.text, LBRACE) = Count(json_object.text, RBRACE)


\* The brackets and braces of a text, in their order. The texts this is used
\* on hold none of them inside a string.
Brackets(text) == SelectSeq(text, LAMBDA c : c \in {LBRACE, RBRACE, LBRACKET, RBRACKET})
OpenerOf(closer) == IF closer = RBRACE THEN LBRACE ELSE LBRACKET
\* From position i on, with the openers in stack still open, each closer
\* matches the innermost open opener and none is left open at the end.
RECURSIVE Nested(_, _, _)
Nested(brackets, i, stack) ==
    IF i > Len(brackets) THEN stack = <<>>
    ELSE IF brackets[i] \in {LBRACE, LBRACKET}
    THEN Nested(brackets, i + 1, <<brackets[i]>> \o stack)
    ELSE /\ stack # <<>>
         /\ Head(stack) = OpenerOf(brackets[i])
         /\ Nested(brackets, i + 1, Tail(stack))
WellNested(text) == Nested(Brackets(text), 1, <<>>)

\* C30: for a prefix of a well-nested schema-conformant text that ends after a
\* closed line, the text fix_truncated_json returns has every open '[' and '{'
\* closed in nesting order: it is well nested, not only equal in counts (checked
\* under SpecFixes).
C30_ClosersNested ==
    repair_pc = "fixed" /\ raw_text \in LinePrefixTexts => WellNested(fixed_text)


(***************************************************************************)
(* Claims about the temporary files of the service                         *)
(***************************************************************************)
\* process_document or process_file has returned or raised for request r.
Finished(r) == requests[r].pc \in {"returned", "raised"}

\* C26: every page-image file written for a request has been removed when
\* process_document or process_file returns or raises, also when the
\* rasterization fails after some pages were written, when the extraction
\* raises, and when the removal of one file fails (checked under SpecService).
C26_PageImagesRemoved ==
    \A r \in RequestIds :
        Finished(r) => \A p \in PagePaths : files[p] # r

\* C27: two requests handled concurrently never read, overwrite or delete each
\* other's downloaded document: while a request waits between its download and
\* its processing the document at its path is its own, and what it has read is
\* its own document (checked under SpecService).
C27_RequestsIsolated ==
    \A r \in RequestIds :
        /\ requests[r].pc = "closing" => files[requests[r].document_path] = r
        /\ requests[r].read_from \in {0, r}
        /\ requests[r].pc = "returned" => requests[r].read_from = r

=============================================================================
